---- MODULE Spec2Model ----
(***************************************************************************)
(* Model of VideoGenerator (effect_generator.cpp): duration resolution,    *)
(* stage setup, warmup, the staged worker pipeline connected by bounded    *)
(* FrameQueues, the collector, and the fade envelope.                      *)
(*                                                                         *)
(* Conventions: seconds held in float members are modelled in tenths of a  *)
(* second (fadeDuration_, warmupSeconds_, probed seconds); maxFadeRatio_   *)
(* is modelled in percent; a fade multiplier is the exact fraction         *)
(* num/den.  A frame buffer is modelled by its size in bytes.              *)
(***************************************************************************)
EXTENDS Integers, Sequences, FiniteSets, TLC

\* ------------------------------------------------------------------ bounds
MaxStages == 2
MaxSourceFrames == 2
MaxUnboundedFrames == 2
Width == 2
Height == 1
MaxFadeTotal == 12
MaxQueueItems == 9
MaxCloseCalls == 2

\* ------------------------------------------------------- program constants
queueCapacity == 8
INT_MAX == 2147483647

\* ------------------------------------------------------------ input sets
FpsValues == {1, 3}
FadeDurations == {0, 10}
WarmupValues == {0, 10}
WarmupWideValues == {-10, 0, 5, 15}
MaxFadeRatios == {100}
Durations == {0, 1}
CrossfadeDurations == {5}
CustomDropSets == {{1}}
LongFpsValues == {5, 10}
LongDurations == {0, 2}
LongProbeSeconds == {10}
WideFpsValues == {1, 24, 30}
WideDurations == {-1, 0, 1, 2, 5}
WideProbeSeconds == {1, 15, 40, 333}
FadeFpsValues == {1, 2, 30}
FadeCallDurations == {-5, 0, 5, 10, 25}
FadeCallRatios == {50, 100}
FadeCallTotals == {300}
ProducerThreads == {"t1"}
ConsumerThreads == {"t2", "t3"}
QueueThreads == ProducerThreads \cup ConsumerThreads
PidValues == {7}

VARIABLES
    fps_, fadeDuration_, maxFadeRatio_, warmupSeconds_,
    hasBackground_, isVideo_, backgroundVideo_, videoInput_, ffmpegOutput_,
    effects, durationSec, probeSecs, spawned, printed,
    gpc, result, totalFrames, autoDetectDuration,
    setupIdx, initialized, crossfadeFrames_, setupCalls, updateCount, renderCount,
    stageQueues, closed_,
    wpc, stageFrameIndex, logicalFrame, frame, fadeMultiplier, dropFrame, calls,
    rendered, dropped,
    srcDelivered, srcEOF, sourceEnded, sourceFrameCount,
    packet, written, writtenFrames, endedAt,
    fadeCall,
    queueCalls, queueLog,
    proc, child, closePc, pipeLog,
    unitCall

genVars == <<fps_, fadeDuration_, maxFadeRatio_, warmupSeconds_,
             hasBackground_, isVideo_, backgroundVideo_, videoInput_>>
callVars == <<effects, durationSec, probeSecs, totalFrames, autoDetectDuration>>
setupVars == <<setupIdx, initialized, crossfadeFrames_, setupCalls>>
queueVars == <<stageQueues, closed_>>
workerVars == <<wpc, stageFrameIndex, logicalFrame, frame, fadeMultiplier,
                dropFrame, calls, rendered, dropped, renderCount>>
sourceVars == <<srcDelivered, srcEOF, sourceEnded, sourceFrameCount>>
collectorVars == <<packet, written, writtenFrames>>
\* a FrameQueue, a ProcessPipe and single functions exercised on their own
unitVars == <<queueCalls, queueLog, proc, child, closePc, pipeLog, unitCall>>

vars == <<fps_, fadeDuration_, maxFadeRatio_, warmupSeconds_,
          hasBackground_, isVideo_, backgroundVideo_, videoInput_, ffmpegOutput_,
          effects, durationSec, probeSecs, spawned, printed,
          gpc, result, totalFrames, autoDetectDuration,
          setupIdx, initialized, crossfadeFrames_, setupCalls, updateCount, renderCount,
          stageQueues, closed_,
          wpc, stageFrameIndex, logicalFrame, frame, fadeMultiplier, dropFrame, calls,
          rendered, dropped,
          srcDelivered, srcEOF, sourceEnded, sourceFrameCount,
          packet, written, writtenFrames, endedAt,
          fadeCall,
          queueCalls, queueLog, proc, child, closePc, pipeLog, unitCall>>

\* ------------------------------------------------------------- arithmetic
StageIds == 0..(MaxStages - 1)

FrameBytes == Width * Height * 3

\* (int) cast of a non-negative quotient n/d: truncation
Trunc(n, d) == n \div d

\* std::round of the non-negative quotient n/d: halves round away from zero
Round(n, d) == (2 * n + d) \div (2 * d)

Max0(x) == IF x > 0 THEN x ELSE 0

\* int is 32 bits wide
INT_MIN == -INT_MAX - 1

\* x + y of two ints, wrapped to 32 bits
addWrap(x, y) ==
    IF x >= 0 /\ y >= 0 /\ x > INT_MAX - y
    THEN (x - INT_MAX - 1) + (y - INT_MAX - 1)
    ELSE IF x < 0 /\ y < 0 /\ x < INT_MIN - y
    THEN (x + INT_MAX + 1) + (y + INT_MAX + 1)
    ELSE x + y

\* a * b for ints 0 <= a < 2^15 and b >= 0, wrapped to 32 bits: the product is
\* taken on the two 16-bit halves of b
mulWrap(a, b) ==
    LET low == a * (b % 65536)
        high == ((a * (b \div 65536)) + (low \div 65536)) % 65536 IN
    ((IF high >= 32768 THEN high - 65536 ELSE high) * 65536) + (low % 65536)

\* the values an int expression can have after signed overflow or after the
\* conversion of a floating value that no int can hold: both are undefined,
\* builds wrap, saturate or give the most negative int
overflowed(wrapped) == {wrapped, INT_MIN, INT_MAX}

\* fps * d for ints fps > 0 and d > 0 (line 640)
intMul(fps, d) ==
    IF d <= INT_MAX \div fps THEN {fps * d} ELSE overflowed(mulWrap(fps, d))

\* (int)std::round(secs * fps) for secs > 0 in tenths of a second and an int
\* fps > 0 (line 633)
roundToInt(secs, fps) ==
    LET whole == secs \div 10
        part == Round((secs % 10) * fps, 10) IN
    IF whole <= (INT_MAX - part) \div fps
    THEN {whole * fps + part}
    ELSE overflowed(addWrap(mulWrap(fps, whole), part))

Count(items, x) == Cardinality({n \in 1..Len(items) : items[n] = x})

\* ----------------------------------------------------------------- effects
DefaultEffect == [kind |-> "default", crossfadeDuration_ |-> 0, drops |-> {}]
LoopFade(cd) == [kind |-> "loopfade", crossfadeDuration_ |-> cd, drops |-> {}]
CustomEffect(ds) == [kind |-> "custom", crossfadeDuration_ |-> 0, drops |-> ds]

EffectValues == {DefaultEffect}
                \cup {LoopFade(cd) : cd \in CrossfadeDurations}
                \cup {CustomEffect(ds) : ds \in CustomDropSets}

SeqsUpTo(S, n) == UNION {[1..m -> S] : m \in 0..n}

EffectLists == SeqsUpTo(EffectValues, MaxStages)

\* Effect::postProcess / LoopFadeEffect::postProcess: the value left in dropFrame
postProcess(effect, cf, frameIndex) ==
    CASE effect.kind = "loopfade" -> frameIndex <= cf
      [] effect.kind = "custom" -> frameIndex \in effect.drops
      [] OTHER -> FALSE

\* LoopFadeEffect::initialize: crossfadeFrames_ = (int)(crossfadeDuration_ * fps)
initCrossfadeFrames(effect, fps) ==
    IF effect.kind = "loopfade" THEN Trunc(effect.crossfadeDuration_ * fps, 10) ELSE 0

\* ------------------------------------------------------------------- fade
Frac(n, d) == [num |-> n, den |-> d]
One == Frac(1, 1)
FracLess1(m) == m.den > 0 /\ m.num < m.den
FracEq(a, b) == a.num * b.den = b.num * a.den

fadeFramesOf(fadeDuration, fps) == Trunc(fadeDuration * fps, 10)

getFadeMultiplierShortTail(fadeDuration, maxFadeRatio, fps, frameNumber, total) ==
    IF fadeDuration <= 0 THEN Frac(maxFadeRatio, 100)
    ELSE LET fadeFrames == fadeFramesOf(fadeDuration, fps) IN
         IF frameNumber < fadeFrames
            THEN Frac(frameNumber * maxFadeRatio, fadeFrames * 100)
         ELSE IF frameNumber >= total - fadeFrames
            THEN Frac((total - 1 - frameNumber) * maxFadeRatio, fadeFrames * 100)
         ELSE Frac(maxFadeRatio, 100)
getFadeMultiplierInclusive(fadeDuration, maxFadeRatio, fps, frameNumber, total) ==
    IF fadeDuration <= 0 THEN Frac(maxFadeRatio, 100)
    ELSE LET fadeFrames == fadeFramesOf(fadeDuration, fps) IN
         IF frameNumber <= fadeFrames
            THEN Frac(frameNumber * maxFadeRatio, fadeFrames * 100)
         ELSE IF frameNumber >= total - fadeFrames
            THEN Frac((total - frameNumber) * maxFadeRatio, fadeFrames * 100)
         ELSE Frac(maxFadeRatio, 100)
getFadeMultiplierOf(fadeDuration, maxFadeRatio, fps, frameNumber, total) ==
    IF fadeDuration <= 0 THEN Frac(maxFadeRatio, 100)
    ELSE LET fadeFrames == fadeFramesOf(fadeDuration, fps) IN
         IF frameNumber < fadeFrames
            THEN Frac(frameNumber * maxFadeRatio, fadeFrames * 100)
         ELSE IF frameNumber >= total - fadeFrames
            THEN Frac((total - frameNumber) * maxFadeRatio, fadeFrames * 100)
         ELSE Frac(maxFadeRatio, 100)

getFadeMultiplier(frameNumber, total) ==
    getFadeMultiplierOf(fadeDuration_, maxFadeRatio_, fps_, frameNumber, total)

computeStageFadeAnyStage(frameIndex, stageHasBackground) ==
    IF autoDetectDuration
    THEN LET fadeFrames == fadeFramesOf(fadeDuration_, fps_) IN
         IF fadeFrames <= 0 THEN One
         ELSE IF frameIndex < fadeFrames THEN Frac(frameIndex, fadeFrames)
         ELSE One
    ELSE getFadeMultiplier(frameIndex, totalFrames)
computeStageFade(frameIndex, stageHasBackground) ==
    IF ~stageHasBackground THEN One
    ELSE IF autoDetectDuration
         THEN LET fadeFrames == fadeFramesOf(fadeDuration_, fps_) IN
              IF fadeFrames <= 0 THEN One
              ELSE IF frameIndex < fadeFrames THEN Frac(frameIndex, fadeFrames)
              ELSE One
    ELSE getFadeMultiplier(frameIndex, totalFrames)

\* ------------------------------------------------------------- FrameQueue
FramePacketNoFrame(f, i) == [frame |-> 0, frameIndex |-> i, end |-> FALSE]
FramePacket(f, i) == [frame |-> f, frameIndex |-> i, end |-> FALSE]
endPacketUnflagged == [frame |-> 0, frameIndex |-> 0, end |-> FALSE]
endPacket == [frame |-> 0, frameIndex |-> 0, end |-> TRUE]
NoPacket == [frame |-> 0, frameIndex |-> -1, end |-> FALSE]

\* predicate of cvNotFull_.wait in push
pushReadyOffByOne(q) == closed_[q] \/ Len(stageQueues[q]) <= queueCapacity
pushReadyNoWait(q) == TRUE
pushReady(q) == closed_[q] \/ Len(stageQueues[q]) < queueCapacity
\* queue_.push_back in push
push_front(items, p) == <<p>> \o items
push_backCopy(items, p) == items \o <<p, p>>
push_back(items, p) == Append(items, p)
\* predicate of cvNotEmpty_.wait in pop
popReadyClosedOnly(q) == closed_[q]
popReady(q) == closed_[q] \/ Len(stageQueues[q]) > 0

\* a thread's call of push, pop or close on a FrameQueue taken on its own
IdleCall == [op |-> "none", st |-> "idle", packet |-> NoPacket, ret |-> FALSE,
             out |-> NoPacket]
NoQueueLog == [calls |-> 0, pushed |-> <<>>, popped |-> <<>>, atClose |-> -1,
               woken |-> {}, closedTwice |-> FALSE, blocked |-> -1]

\* ------------------------------------------------------------ ProcessPipe
\* VideoGenerator::ProcessPipe result; as spawnProcessPipe declares it
NullPipe == [stream |-> FALSE, pid |-> -1]
NoChild == [state |-> "none", mode |-> "none", execOk |-> FALSE, pid |-> -1,
            parentEnd |-> FALSE]
NoSpawn == [argsEmpty |-> TRUE, mode |-> "null", win32 |-> FALSE, pipeOk |-> FALSE,
            forkOk |-> FALSE, execOk |-> FALSE, fdopenOk |-> FALSE]

\* ------------------------------------------------------------------- Init
NoFadeCall == [frameNumber |-> -1, totalFrames |-> -1, result |-> One]

\* no function is being exercised on its own
NoCall == [fn |-> "none"]

\* state of the run-time variables of generate before generate is called
RunIdle ==
    /\ effects = <<>>
    /\ durationSec = 0
    /\ probeSecs = 0
    /\ spawned = {}
    /\ printed = {}
    /\ gpc = "idle"
    /\ result = "none"
    /\ totalFrames = 0
    /\ autoDetectDuration = FALSE
    /\ setupIdx = 0
    /\ initialized = [k \in StageIds |-> FALSE]
    /\ crossfadeFrames_ = [k \in StageIds |-> 0]
    /\ setupCalls = <<>>
    /\ updateCount = [k \in StageIds |-> 0]
    /\ renderCount = [k \in StageIds |-> 0]
    /\ stageQueues = [k \in StageIds |-> <<>>]
    /\ closed_ = [k \in StageIds |-> FALSE]
    /\ wpc = [k \in StageIds |-> "none"]
    /\ stageFrameIndex = [k \in StageIds |-> 0]
    /\ logicalFrame = [k \in StageIds |-> 0]
    /\ frame = [k \in StageIds |-> 0]
    /\ fadeMultiplier = [k \in StageIds |-> One]
    /\ dropFrame = [k \in StageIds |-> FALSE]
    /\ calls = [k \in StageIds |-> <<>>]
    /\ rendered = [k \in StageIds |-> <<>>]
    /\ dropped = [k \in StageIds |-> {}]
    /\ srcDelivered = 0
    /\ srcEOF = FALSE
    /\ sourceEnded = FALSE
    /\ sourceFrameCount = 0
    /\ packet = NoPacket
    /\ written = <<>>
    /\ writtenFrames = 0
    /\ endedAt = -1
    /\ fadeCall = NoFadeCall
    /\ queueCalls = [t \in QueueThreads |-> IdleCall]
    /\ queueLog = NoQueueLog
    /\ proc = NullPipe
    /\ child = NoChild
    /\ closePc = 0
    /\ pipeLog = [in |-> NoSpawn, events |-> <<>>]
    /\ unitCall = NoCall

\* VideoGenerator::VideoGenerator, then setWarmupSeconds
Constructed(fpsSet, fadeSet, ratioSet, warmupSet) ==
    /\ fps_ \in fpsSet
    /\ fadeDuration_ \in fadeSet
    /\ maxFadeRatio_ \in ratioSet
    /\ warmupSeconds_ \in warmupSet
    /\ hasBackground_ = FALSE
    /\ isVideo_ = FALSE
    /\ backgroundVideo_ = FALSE
    /\ videoInput_ = FALSE
    /\ ffmpegOutput_ = "null"

Init ==
    /\ Constructed(FpsValues, FadeDurations, MaxFadeRatios, WarmupValues)
    /\ RunIdle

\* ------------------------------------------------------- background setup
\* VideoGenerator::setBackgroundImage; ok is the result of loadBackgroundImage
setBackgroundImage(ok) ==
    /\ gpc = "idle"
    /\ hasBackground_' = ok
    /\ isVideo_' = FALSE
    /\ UNCHANGED <<fps_, fadeDuration_, maxFadeRatio_, warmupSeconds_,
                   backgroundVideo_, videoInput_, ffmpegOutput_>>
    /\ UNCHANGED <<callVars, printed, spawned, gpc, result, setupVars, updateCount,
                   queueVars, workerVars, sourceVars, collectorVars, endedAt, fadeCall, unitVars>>

\* VideoGenerator::setBackgroundVideo; ok is the result of startBackgroundVideo,
\* which overwrites videoInput_ with the spawn result in either case
setBackgroundVideo(ok) ==
    /\ gpc = "idle"
    /\ videoInput_' = ok
    /\ backgroundVideo_' = (backgroundVideo_ \/ ok)
    /\ hasBackground_' = ok
    /\ isVideo_' = TRUE
    /\ UNCHANGED <<fps_, fadeDuration_, maxFadeRatio_, warmupSeconds_, ffmpegOutput_>>
    /\ UNCHANGED <<callVars, printed, spawned, gpc, result, setupVars, updateCount,
                   queueVars, workerVars, sourceVars, collectorVars, endedAt, fadeCall, unitVars>>

SetBackground ==
    \E ok \in BOOLEAN : setBackgroundImage(ok) \/ setBackgroundVideo(ok)

\* ---------------------------------------------------- duration resolution
\* VideoGenerator::probeVideoDuration: the possible results, each with whether
\* ffprobe was found and whether a probe child was spawned.  A positive value
\* needs a file name to probe.
probeVideoDuration(haveFile, secsSet) ==
    {[found |-> FALSE, spawn |-> FALSE, secs |-> -10]}
    \cup {[found |-> TRUE, spawn |-> sp, secs |-> -10] : sp \in BOOLEAN}
    \cup (IF haveFile THEN {[found |-> TRUE, spawn |-> TRUE, secs |-> s] : s \in secsSet}
                      ELSE {})

ProbeSeconds == {5, 10}

\* generate, lines 629-646: what it can resolve for a given probe result,
\* each as <<proceeds, totalFrames>>
resolveDurationProbeFirst(d, probe) ==
    IF isVideo_
    THEN IF probe.secs > 0 THEN {<<TRUE, t>> : t \in roundToInt(probe.secs, fps_)}
                           ELSE {<<TRUE, INT_MAX>>}
    ELSE IF d > 0 THEN {<<TRUE, t>> : t \in intMul(fps_, d)}
    ELSE {<<FALSE, 0>>}
resolveDuration(d, probe) ==
    IF isVideo_ /\ d <= 0
    THEN IF probe.secs > 0 THEN {<<TRUE, t>> : t \in roundToInt(probe.secs, fps_)}
                           ELSE {<<TRUE, INT_MAX>>}
    ELSE IF d > 0 THEN {<<TRUE, t>> : t \in intMul(fps_, d)}
    ELSE {<<FALSE, 0>>}

\* generate, lines 627-644: the lines printed while the duration is resolved
resolveMessages(d, probe) ==
    {"FFmpeg path"}
    \cup (IF isVideo_ /\ d <= 0 /\ ~probe.found THEN {"ffprobe not found"} ELSE {})
    \cup (IF isVideo_ /\ d <= 0
          THEN IF probe.secs > 0 THEN {"Auto-detected background video duration"}
                                 ELSE {"Could not probe video duration"}
          ELSE IF d > 0 THEN {"Generating frames"}
          ELSE {"No duration provided and no background video available"})

\* generate, lines 624-646, for the results probes that probeVideoDuration
\* can give
generateResolve(effs, d, probes) ==
    /\ gpc = "idle"
    /\ effects' = effs
    /\ durationSec' = d
    /\ IF Len(effs) = 0
       THEN /\ gpc' = "returned"
            /\ result' = "false"
            /\ UNCHANGED <<probeSecs, spawned, printed, totalFrames, autoDetectDuration>>
       ELSE \E probe \in probes : \E r \in resolveDuration(d, probe) :
              LET probed == isVideo_ /\ d <= 0 IN
              /\ probeSecs' = IF probed THEN probe.secs ELSE 0
              /\ spawned' = IF probed /\ probe.spawn THEN spawned \cup {"probe"} ELSE spawned
              /\ printed' = printed \cup resolveMessages(d, probe)
              /\ totalFrames' = r[2]
              /\ autoDetectDuration' = (r[1] /\ r[2] = INT_MAX)
              /\ gpc' = IF r[1] THEN "setup" ELSE "returned"
              /\ result' = IF r[1] THEN "none" ELSE "false"
    /\ UNCHANGED <<genVars, ffmpegOutput_, setupVars, updateCount, queueVars, workerVars,
                   sourceVars, collectorVars, endedAt, fadeCall>>

generateCall(effs, d, secsSet) ==
    /\ generateResolve(effs, d, probeVideoDuration(backgroundVideo_, secsSet))
    /\ UNCHANGED unitVars

GenerateCall ==
    \E effs \in EffectLists, d \in Durations : generateCall(effs, d, ProbeSeconds)

\* ------------------------------------------------------------ stage setup
\* generate, lines 650-654: the calls made on the effect of one stage, in order
setupCallsAlwaysTotal(stage) ==
    << [stage |-> stage, call |-> "setTotalFrames", arg |-> totalFrames],
       [stage |-> stage, call |-> "setGlobalWarmupSeconds", arg |-> Max0(warmupSeconds_)],
       [stage |-> stage, call |-> "initialize", arg |-> fps_] >>
setupCallsOf(stage) ==
    (IF totalFrames # INT_MAX
     THEN << [stage |-> stage, call |-> "setTotalFrames", arg |-> totalFrames] >>
     ELSE << >>)
    \o << [stage |-> stage, call |-> "setGlobalWarmupSeconds", arg |-> Max0(warmupSeconds_)],
          [stage |-> stage, call |-> "initialize", arg |-> fps_] >>

\* generate, lines 648-658: one iteration of the effect loop; how tells whether
\* the effect is null, its initialize fails, or its initialize succeeds
SetupEffectIgnoresFailure ==
    /\ gpc = "setup"
    /\ setupIdx < Len(effects)
    /\ \E how \in {"ok", "null", "fail"} :
         /\ initialized' = [initialized EXCEPT ![setupIdx] = (how = "ok")]
         /\ crossfadeFrames_' = [crossfadeFrames_ EXCEPT ![setupIdx] =
                                   initCrossfadeFrames(effects[setupIdx + 1], fps_)]
         /\ setupCalls' = IF how = "null" THEN setupCalls
                          ELSE setupCalls \o setupCallsOf(setupIdx)
         /\ setupIdx' = setupIdx + 1
         /\ UNCHANGED <<gpc, result, printed>>
    /\ UNCHANGED <<genVars, ffmpegOutput_, effects, durationSec, probeSecs, totalFrames,
                   autoDetectDuration, spawned, updateCount, queueVars,
                   workerVars, sourceVars, collectorVars, endedAt, fadeCall, unitVars>>
SetupEffect ==
    /\ gpc = "setup"
    /\ setupIdx < Len(effects)
    /\ \E how \in {"ok", "null", "fail"} :
         IF how = "null"
         THEN /\ gpc' = "returned"
              /\ result' = "false"
              /\ UNCHANGED <<setupVars, printed>>
         ELSE IF how = "fail"
         THEN /\ setupCalls' = setupCalls \o setupCallsOf(setupIdx)
              /\ printed' = printed \cup {"Effect initialization failed"}
              /\ gpc' = "returned"
              /\ result' = "false"
              /\ UNCHANGED <<setupIdx, initialized, crossfadeFrames_>>
         ELSE /\ setupCalls' = setupCalls \o setupCallsOf(setupIdx)
              /\ initialized' = [initialized EXCEPT ![setupIdx] = TRUE]
              /\ crossfadeFrames_' = [crossfadeFrames_ EXCEPT ![setupIdx] =
                                        initCrossfadeFrames(effects[setupIdx + 1], fps_)]
              /\ setupIdx' = setupIdx + 1
              /\ UNCHANGED <<gpc, result, printed>>
    /\ UNCHANGED <<genVars, ffmpegOutput_, effects, durationSec, probeSecs, totalFrames,
                   autoDetectDuration, spawned, updateCount, queueVars,
                   workerVars, sourceVars, collectorVars, endedAt, fadeCall, unitVars>>

warmupFramesTruncated == Trunc(Max0(warmupSeconds_) * fps_, 10)
warmupFrames == Round(Max0(warmupSeconds_) * fps_, 10)

\* generate, lines 660-669
Warmup ==
    /\ gpc = "setup"
    /\ setupIdx = Len(effects)
    /\ updateCount' = [k \in StageIds |->
                         IF k < Len(effects) /\ warmupFrames > 0
                         THEN updateCount[k] + warmupFrames ELSE updateCount[k]]
    /\ printed' = IF warmupFrames > 0 THEN printed \cup {"Warmup"} ELSE printed
    /\ gpc' = "open"
    /\ UNCHANGED <<genVars, ffmpegOutput_, callVars, spawned, result, setupVars, queueVars,
                   workerVars, sourceVars, collectorVars, endedAt, fadeCall, unitVars>>

\* generate, lines 671-673: ok is the result of startFFmpegOutput, which fails
\* with one of two diagnostics (lines 466 and 605)
StartOutput ==
    /\ gpc = "open"
    /\ \E ok \in BOOLEAN :
         IF ok
         THEN /\ ffmpegOutput_' = "open"
              /\ spawned' = spawned \cup {"encoder"}
              /\ gpc' = "spawn"
              /\ UNCHANGED <<result, printed>>
         ELSE /\ gpc' = "returned"
              /\ result' = "false"
              /\ \E why \in {"FFmpeg path not set or FFmpeg not found",
                               "Failed to open FFmpeg output pipe"} :
                    printed' = printed \cup {why}
              /\ UNCHANGED <<ffmpegOutput_, spawned>>
    /\ UNCHANGED <<genVars, callVars, setupVars, updateCount, queueVars,
                   workerVars, sourceVars, collectorVars, endedAt, fadeCall, unitVars>>

\* generate, lines 731-811: the queues are created and one worker per effect
\* is started
SpawnWorkers ==
    /\ gpc = "spawn"
    /\ wpc' = [k \in StageIds |-> IF k < Len(effects) THEN "acquire" ELSE "none"]
    /\ gpc' = "collect"
    /\ UNCHANGED <<genVars, ffmpegOutput_, callVars, printed, spawned, result, setupVars, updateCount,
                   queueVars, stageFrameIndex, logicalFrame, frame, fadeMultiplier,
                   dropFrame, calls, rendered, dropped, renderCount,
                   sourceVars, collectorVars, endedAt, fadeCall, unitVars>>


\* ---------------------------------------------------------- stage workers
NumStages == Len(effects)

stageHasBackground(stage) == hasBackground_ \/ stage > 0

\* VideoGenerator::readVideoFrame: the possible results.  A complete frame can
\* be delivered only before the stream has reported a short read.
readVideoFrame ==
    IF ~videoInput_ THEN {FALSE}
    ELSE IF srcEOF \/ srcDelivered >= MaxSourceFrames THEN {FALSE}
    ELSE {TRUE, FALSE}

\* stage worker, lines 757-761: a failed read ends the loop of an unbounded run
exhaustedNever(ok) == FALSE
exhausted(ok) == ~ok /\ autoDetectDuration

WorkerLeaves(stage) ==
    /\ wpc' = [wpc EXCEPT ![stage] = "end"]
    /\ UNCHANGED <<stageFrameIndex, logicalFrame, frame, fadeMultiplier, dropFrame,
                   calls, rendered, dropped, renderCount>>

WorkerHoldsRenumbers(stage, f, i) ==
    /\ wpc' = [wpc EXCEPT ![stage] = "process"]
    /\ frame' = [frame EXCEPT ![stage] = f]
    /\ logicalFrame' = [logicalFrame EXCEPT ![stage] = stageFrameIndex[stage]]
    /\ calls' = [calls EXCEPT ![stage] = <<>>]
    /\ UNCHANGED <<stageFrameIndex, fadeMultiplier, dropFrame, rendered, dropped,
                   renderCount>>
WorkerHolds(stage, f, i) ==
    /\ wpc' = [wpc EXCEPT ![stage] = "process"]
    /\ frame' = [frame EXCEPT ![stage] = f]
    /\ logicalFrame' = [logicalFrame EXCEPT ![stage] = i]
    /\ calls' = [calls EXCEPT ![stage] = <<>>]
    /\ UNCHANGED <<stageFrameIndex, fadeMultiplier, dropFrame, rendered, dropped,
                   renderCount>>

\* stage worker, lines 751-780: loop test and the frame the stage works on
WorkerAcquire(stage) ==
    /\ stage < NumStages
    /\ wpc[stage] = "acquire"
    /\ IF ~(stageFrameIndex[stage] < totalFrames)
       THEN /\ WorkerLeaves(stage)
            /\ UNCHANGED <<queueVars, sourceVars>>
       ELSE IF stage = 0
       THEN /\ UNCHANGED queueVars
            /\ IF isVideo_ /\ hasBackground_
               THEN \E ok \in readVideoFrame :
                      /\ srcDelivered' = IF ok THEN srcDelivered + 1 ELSE srcDelivered
                      /\ srcEOF' = (srcEOF \/ ~ok)
                      /\ IF exhausted(ok)
                         THEN /\ sourceEnded' = TRUE
                              /\ WorkerLeaves(stage)
                         ELSE /\ UNCHANGED sourceEnded
                              /\ WorkerHolds(stage, FrameBytes, stageFrameIndex[stage])
                      /\ UNCHANGED sourceFrameCount
               ELSE /\ autoDetectDuration => stageFrameIndex[stage] < MaxUnboundedFrames
                    /\ WorkerHolds(stage, FrameBytes, stageFrameIndex[stage])
                    /\ UNCHANGED sourceVars
       ELSE /\ popReady(stage - 1)
            /\ UNCHANGED <<closed_, sourceVars>>
            /\ IF Len(stageQueues[stage - 1]) = 0
               THEN /\ WorkerLeaves(stage)
                    /\ UNCHANGED stageQueues
               ELSE LET input == Head(stageQueues[stage - 1]) IN
                    /\ stageQueues' = [stageQueues EXCEPT ![stage - 1] = Tail(@)]
                    /\ IF input.end
                       THEN WorkerLeaves(stage)
                       ELSE WorkerHolds(stage, input.frame, input.frameIndex)
    /\ UNCHANGED <<genVars, ffmpegOutput_, callVars, printed, spawned, gpc, result, setupVars,
                   updateCount, collectorVars, endedAt, fadeCall, unitVars>>

\* stage worker, lines 783-787: the effect calls made for one frame, in order;
\* drop is the value postProcess left in dropFrame
processCallsUpdateUnlessDropped(drop) ==
    IF drop THEN <<"renderFrame", "postProcess">>
            ELSE <<"renderFrame", "postProcess", "update">>
processCalls(drop) == <<"renderFrame", "postProcess", "update">>

\* stage worker, line 789: if (!dropFrame)
pushesAlways(stage) == TRUE
pushesEvenFrames(stage) == ~dropFrame[stage] /\ logicalFrame[stage] % 2 = 0
pushes(stage) == ~dropFrame[stage]

\* stage worker, lines 782-787: renderFrame, postProcess, update
WorkerProcess(stage) ==
    /\ stage < NumStages
    /\ wpc[stage] = "process"
    /\ fadeMultiplier' = [fadeMultiplier EXCEPT ![stage] =
                            computeStageFade(logicalFrame[stage], stageHasBackground(stage))]
    /\ rendered' = [rendered EXCEPT ![stage] = Append(@, logicalFrame[stage])]
    /\ LET drop == postProcess(effects[stage + 1], crossfadeFrames_[stage],
                               logicalFrame[stage])
           made == processCalls(drop) IN
       /\ dropFrame' = [dropFrame EXCEPT ![stage] = drop]
       /\ dropped' = [dropped EXCEPT ![stage] =
                        IF drop THEN @ \cup {logicalFrame[stage]} ELSE @]
       /\ renderCount' = [renderCount EXCEPT ![stage] = @ + Count(made, "renderFrame")]
       /\ updateCount' = [updateCount EXCEPT ![stage] = @ + Count(made, "update")]
       /\ calls' = [calls EXCEPT ![stage] = @ \o made]
    /\ wpc' = [wpc EXCEPT ![stage] = "push"]
    /\ UNCHANGED <<genVars, ffmpegOutput_, callVars, printed, spawned, gpc, result, setupVars,
                   queueVars, stageFrameIndex, logicalFrame, frame,
                   sourceVars, collectorVars, endedAt, fadeCall, unitVars>>

\* stage worker, lines 789-799: push unless dropped, then ++stageFrameIndex
WorkerPush(stage) ==
    /\ stage < NumStages
    /\ wpc[stage] = "push"
    /\ IF pushes(stage)
       THEN /\ pushReady(stage)
            /\ IF closed_[stage]
               THEN /\ wpc' = [wpc EXCEPT ![stage] = "end"]
                    /\ UNCHANGED <<stageQueues, stageFrameIndex, calls>>
               ELSE /\ stageQueues' = [stageQueues EXCEPT ![stage] =
                                         push_back(@, FramePacket(frame[stage], logicalFrame[stage]))]
                    /\ calls' = [calls EXCEPT ![stage] = Append(@, "push")]
                    /\ stageFrameIndex' = [stageFrameIndex EXCEPT ![stage] = @ + 1]
                    /\ wpc' = [wpc EXCEPT ![stage] = "acquire"]
       ELSE /\ stageFrameIndex' = [stageFrameIndex EXCEPT ![stage] = @ + 1]
            /\ wpc' = [wpc EXCEPT ![stage] = "acquire"]
            /\ UNCHANGED <<stageQueues, calls>>
    /\ UNCHANGED <<genVars, ffmpegOutput_, callVars, printed, spawned, gpc, result, setupVars,
                   updateCount, closed_, logicalFrame, frame, fadeMultiplier, dropFrame,
                   rendered, dropped, renderCount, sourceVars, collectorVars, endedAt,
                   fadeCall, unitVars>>

\* stage worker, lines 802-808: sourceFrameCount and the end packet
WorkerPushEnd(stage) ==
    /\ stage < NumStages
    /\ wpc[stage] = "end"
    /\ pushReady(stage)
    /\ sourceFrameCount' = IF stage = 0 THEN stageFrameIndex[stage] ELSE sourceFrameCount
    /\ stageQueues' = [stageQueues EXCEPT ![stage] =
                         IF closed_[stage] THEN @ ELSE push_back(@, endPacket)]
    /\ wpc' = [wpc EXCEPT ![stage] = "close"]
    /\ UNCHANGED <<genVars, ffmpegOutput_, callVars, printed, spawned, gpc, result, setupVars,
                   updateCount, closed_, stageFrameIndex, logicalFrame, frame,
                   fadeMultiplier, dropFrame, calls, rendered, dropped, renderCount,
                   srcDelivered, srcEOF, sourceEnded, collectorVars, endedAt, fadeCall, unitVars>>

\* stage worker, line 809: outputQueue->close(), then the thread ends
WorkerClose(stage) ==
    /\ stage < NumStages
    /\ wpc[stage] = "close"
    /\ closed_' = [closed_ EXCEPT ![stage] = TRUE]
    /\ wpc' = [wpc EXCEPT ![stage] = "done"]
    /\ UNCHANGED <<genVars, ffmpegOutput_, callVars, printed, spawned, gpc, result, setupVars,
                   updateCount, stageQueues, stageFrameIndex, logicalFrame, frame,
                   fadeMultiplier, dropFrame, calls, rendered, dropped, renderCount,
                   sourceVars, collectorVars, endedAt, fadeCall, unitVars>>

\* -------------------------------------------------------------- collector
finalQueue == NumStages - 1

\* collector, lines 816-822
CollectorPop ==
    /\ gpc = "collect"
    /\ popReady(finalQueue)
    /\ IF Len(stageQueues[finalQueue]) = 0
       THEN /\ gpc' = "join"
            /\ UNCHANGED <<stageQueues, packet>>
       ELSE /\ packet' = Head(stageQueues[finalQueue])
            /\ stageQueues' = [stageQueues EXCEPT ![finalQueue] = Tail(@)]
            /\ gpc' = IF Head(stageQueues[finalQueue]).end THEN "join" ELSE "write"
    /\ UNCHANGED <<genVars, ffmpegOutput_, callVars, printed, spawned, result, setupVars,
                   updateCount, closed_, workerVars, sourceVars, written, writtenFrames,
                   endedAt, fadeCall, unitVars>>

\* collector, lines 824-831: the multiplier the frame is darkened by, One if none
collectorFadeWithBackground(frameIndex) ==
    IF fadeDuration_ > 0 /\ ~autoDetectDuration
    THEN LET m == getFadeMultiplier(frameIndex, totalFrames) IN
         IF FracLess1(m) THEN m ELSE One
    ELSE One
collectorFade(frameIndex) ==
    IF ~hasBackground_ /\ fadeDuration_ > 0 /\ ~autoDetectDuration
    THEN LET m == getFadeMultiplier(frameIndex, totalFrames) IN
         IF FracLess1(m) THEN m ELSE One
    ELSE One

\* collector, lines 824-837: fade, fwrite, ++writtenFrames
CollectorWrite ==
    /\ gpc = "write"
    /\ written' = Append(written, [frameIndex |-> packet.frameIndex,
                                   bytes |-> packet.frame,
                                   fade |-> collectorFade(packet.frameIndex),
                                   sink |-> ffmpegOutput_])
    /\ writtenFrames' = writtenFrames + 1
    /\ printed' = IF (writtenFrames + 1) % fps_ = 0 THEN printed \cup {"Progress"}
                                                    ELSE printed
    /\ gpc' = "collect"
    /\ UNCHANGED <<genVars, ffmpegOutput_, callVars, spawned, result, setupVars,
                   updateCount, queueVars, workerVars, sourceVars, packet, endedAt,
                   fadeCall, unitVars>>

\* generate, lines 840-842: worker.join() for every worker
JoinWorkersNoWait ==
    /\ gpc = "join"
    /\ gpc' = "close"
    /\ UNCHANGED <<genVars, ffmpegOutput_, callVars, printed, spawned, result, setupVars,
                   updateCount, queueVars, workerVars, sourceVars, collectorVars,
                   endedAt, fadeCall, unitVars>>
JoinWorkers ==
    /\ gpc = "join"
    /\ \A k \in StageIds : k < NumStages => wpc[k] = "done"
    /\ gpc' = "close"
    /\ UNCHANGED <<genVars, ffmpegOutput_, callVars, printed, spawned, result, setupVars,
                   updateCount, queueVars, workerVars, sourceVars, collectorVars,
                   endedAt, fadeCall, unitVars>>

\* generate, lines 844-853: close the encoder, report, return true
CloseOutput ==
    /\ gpc = "close"
    /\ ffmpegOutput_' = "closed"
    /\ endedAt' = IF sourceEnded /\ autoDetectDuration THEN sourceFrameCount ELSE endedAt
    /\ printed' = printed \cup {"Video saved"}
                   \cup (IF sourceEnded /\ autoDetectDuration THEN {"Input video ended"}
                                                              ELSE {})
    /\ gpc' = "returned"
    /\ result' = "true"
    /\ UNCHANGED <<genVars, callVars, spawned, setupVars, updateCount, queueVars,
                   workerVars, sourceVars, collectorVars, fadeCall, unitVars>>

Worker ==
    \E stage \in StageIds :
        \/ WorkerAcquire(stage)
        \/ WorkerProcess(stage)
        \/ WorkerPush(stage)
        \/ WorkerPushEnd(stage)
        \/ WorkerClose(stage)

Next ==
    \/ SetBackground
    \/ GenerateCall
    \/ SetupEffect
    \/ Warmup
    \/ StartOutput
    \/ SpawnWorkers
    \/ Worker
    \/ CollectorPop
    \/ CollectorWrite
    \/ JoinWorkers
    \/ CloseOutput

Spec == Init /\ [][Next]_vars


\* ------------------------------------------------- runs that fill a queue
LongEffectLists == SeqsUpTo({DefaultEffect}, MaxStages)

InitLong ==
    /\ Constructed(LongFpsValues, FadeDurations, MaxFadeRatios, {0})
    /\ RunIdle

GenerateCallLong ==
    \E effs \in LongEffectLists, d \in LongDurations :
        generateCall(effs, d, LongProbeSeconds)

NextLong ==
    \/ GenerateCallLong
    \/ SetupEffect
    \/ Warmup
    \/ StartOutput
    \/ SpawnWorkers
    \/ Worker
    \/ CollectorPop
    \/ CollectorWrite
    \/ JoinWorkers
    \/ CloseOutput

SpecLong == InitLong /\ [][NextLong]_vars


\* ================================================================ claims

\* C1: in every reachable state every inter-stage FrameQueue holds at most
\* queueCapacity packets, the end packet included.
C1_CapacityInvariant ==
    \A q \in StageIds : Len(stageQueues[q]) <= queueCapacity

\* a queue is full of frame packets and its producer waits in push with the next one
C1_Witness ==
    \E q \in StageIds :
        /\ q < NumStages
        /\ Len(stageQueues[q]) = queueCapacity
        /\ wpc[q] = "push"
        /\ ~dropFrame[q]
        /\ ~closed_[q]


\* frame indices some stage has dropped so far
DroppedFrames == UNION {dropped[k] : k \in StageIds}

\* C2 (as stated): the frameIndex values the collector writes are 0, 1, 2, ...
\* with no gaps.
C2_NoGaps ==
    \A i \in 1..Len(written) : written[i].frameIndex = i - 1

\* C2 (amended): the frameIndex values the collector writes are strictly
\* increasing, and every index below a written one that was not written
\* itself is the index of a frame some stage dropped.
C2_IncreasingGapsAreDrops ==
    /\ \A i, j \in 1..Len(written) :
         i < j => written[i].frameIndex < written[j].frameIndex
    /\ \A i \in 1..Len(written) :
         \A m \in 0..written[i].frameIndex :
            \/ \E j \in 1..i : written[j].frameIndex = m
            \/ m \in DroppedFrames

\* frames 0 and 2 were written around the dropped frame 1
C2_Witness ==
    /\ Len(written) = 2
    /\ written[1].frameIndex = 0
    /\ written[2].frameIndex = 2
    /\ 1 \in DroppedFrames
    /\ result = "true"


\* ------------------------------------------------------- fair scheduling
\* the calling thread inside generate
MainThread ==
    \/ SetupEffect
    \/ Warmup
    \/ StartOutput
    \/ SpawnWorkers
    \/ CollectorPop
    \/ CollectorWrite
    \/ JoinWorkers
    \/ CloseOutput

\* one stage's worker thread
WorkerThread(stage) ==
    \/ WorkerAcquire(stage)
    \/ WorkerProcess(stage)
    \/ WorkerPush(stage)
    \/ WorkerPushEnd(stage)
    \/ WorkerClose(stage)

\* every thread that can run is eventually scheduled; a thread waiting on a
\* condition variable is woken once its predicate holds
InitFair ==
    /\ Constructed(FpsValues, {0}, MaxFadeRatios, {0})
    /\ RunIdle

FairSpec ==
    /\ InitFair
    /\ [][Next]_vars
    /\ WF_vars(MainThread)
    /\ \A stage \in StageIds : WF_vars(WorkerThread(stage))

\* the run is bounded, or stage 0 reads the video source on every frame
SourceFinite == ~autoDetectDuration \/ (isVideo_ /\ hasBackground_)

PipelineRunning == gpc \in {"collect", "write", "join", "close"}

\* C3: in a run whose source is finite, under fair scheduling every worker
\* closes its output queue after its end packet, the collector stops on the
\* end packet, the workers are joined and generate returns; and in no state
\* of such a run are the collector and all workers blocked.
C3_Termination ==
    /\ (PipelineRunning /\ SourceFinite)
            ~> (/\ gpc = "returned"
                /\ result = "true"
                /\ packet.end
                /\ \A stage \in StageIds :
                     stage < NumStages => wpc[stage] = "done" /\ closed_[stage])
    /\ []((PipelineRunning /\ SourceFinite) => ENABLED (MainThread \/ Worker))

\* an unbounded run on a video source has been exhausted, passed its end
\* packet through two stages and returned
C3_Witness ==
    /\ gpc = "returned"
    /\ result = "true"
    /\ NumStages = 2
    /\ autoDetectDuration
    /\ sourceEnded
    /\ packet.end
    /\ \A stage \in StageIds : stage < NumStages => closed_[stage]


SpecLongFair ==
    /\ InitLong
    /\ [][NextLong]_vars
    /\ WF_vars(MainThread)
    /\ \A stage \in StageIds : WF_vars(WorkerThread(stage))

\* C4: a bounded run with an explicit duration, no background and no dropped
\* frame writes exactly totalFrames = fps * durationSec frames of
\* width * height * 3 bytes, with frame indices 0 .. totalFrames - 1 in order.
C4_BoundedRunWritesAllFrames ==
    (/\ gpc = "returned"
     /\ result = "true"
     /\ NumStages >= 1
     /\ durationSec > 0
     /\ ~hasBackground_
     /\ DroppedFrames = {})
    => /\ totalFrames = fps_ * durationSec
       /\ writtenFrames = totalFrames
       /\ Len(written) = totalFrames
       /\ \A i \in 1..Len(written) :
            /\ written[i].frameIndex = i - 1
            /\ written[i].bytes = Width * Height * 3

\* the two-stage run at 10 fps for 2 seconds has returned with 20 frames written
C4_Witness ==
    /\ gpc = "returned"
    /\ result = "true"
    /\ NumStages = 2
    /\ fps_ = 10
    /\ durationSec = 2
    /\ ~hasBackground_
    /\ DroppedFrames = {}
    /\ writtenFrames = 20
    /\ written[20].frameIndex = 19

Range(items) == {items[n] : n \in 1..Len(items)}

\* C5: a frame that stage k dropped is in no queue from stage k on, is not
\* held, rendered or post-processed by a later stage, is not held or written
\* by the collector, and writtenFrames counts the written frames only.
C5_DroppedNeverDownstream ==
    /\ writtenFrames = Len(written)
    /\ \A k \in StageIds : \A i \in dropped[k] :
         /\ \A q \in StageIds : q >= k =>
              \A n \in 1..Len(stageQueues[q]) :
                 stageQueues[q][n].end \/ stageQueues[q][n].frameIndex # i
         /\ \A j \in StageIds : j > k =>
              /\ i \notin Range(rendered[j])
              /\ ~(wpc[j] \in {"process", "push"} /\ logicalFrame[j] = i)
         /\ packet.end \/ packet.frameIndex # i
         /\ \A n \in 1..Len(written) : written[n].frameIndex # i

\* stage 0 of a two-stage run dropped frame 1 and the run wrote the other frames
C5_Witness ==
    /\ gpc = "returned"
    /\ result = "true"
    /\ NumStages = 2
    /\ dropped[0] = {1}
    /\ Range(rendered[1]) = {0, 2}
    /\ writtenFrames = 2

IsPrefix(a, b) == Len(a) <= Len(b) /\ \A n \in 1..Len(a) : a[n] = b[n]

\* C6: every stage calls update() once for each frame it renders, dropped or
\* not, after renderFrame and postProcess and before the push; so after the
\* warmup its update() count is warmupFrames plus the frames it rendered.
C6_UpdateOncePerFrame ==
    \A k \in StageIds : k < NumStages =>
       /\ updateCount[k] - renderCount[k] \in {0, warmupFrames}
       /\ (PipelineRunning \/ (gpc = "returned" /\ result = "true"))
             => updateCount[k] = warmupFrames + renderCount[k]
       /\ renderCount[k] = Len(rendered[k])
       /\ IsPrefix(calls[k], <<"renderFrame", "postProcess", "update", "push">>)
       /\ wpc[k] = "push" => calls[k] = <<"renderFrame", "postProcess", "update">>
       /\ (Len(calls[k]) = 4) => ~dropFrame[k]

\* a run with warmup has ended in which a stage rendered three frames and
\* dropped one of them
C6_Witness ==
    /\ gpc = "returned"
    /\ result = "true"
    /\ warmupFrames > 0
    /\ \E k \in StageIds :
         /\ k < NumStages
         /\ renderCount[k] = 3
         /\ Cardinality(dropped[k]) = 1
         /\ updateCount[k] = warmupFrames + 3


\* ------------------------------------------- duration resolution on its own
InitResolve ==
    /\ Constructed(WideFpsValues, {0}, MaxFadeRatios, {0})
    /\ RunIdle

GenerateCallWide ==
    \E d \in WideDurations : generateCall(<<DefaultEffect>>, d, WideProbeSeconds)

NextResolve ==
    \/ SetBackground
    \/ GenerateCallWide

SpecResolve == InitResolve /\ [][NextResolve]_vars

Abs(x) == IF x < 0 THEN -x ELSE x

\* C7: an explicit duration d > 0 gives totalFrames = fps * d and no probe is
\* run, with or without a video background; with a video background and no
\* explicit duration a probe of s seconds gives the integer nearest to s * fps
\* and a failed probe gives an unbounded run.
C7_DurationResolution ==
    (gpc # "idle" /\ NumStages >= 1) =>
       /\ durationSec > 0 =>
            /\ gpc = "setup"
            /\ totalFrames = fps_ * durationSec
            /\ ~autoDetectDuration
            /\ "probe" \notin spawned
            /\ probeSecs = 0
       /\ (fps_ = 30 /\ durationSec = 5) => totalFrames = 150
       /\ (isVideo_ /\ hasBackground_ /\ durationSec <= 0 /\ probeSecs > 0) =>
            /\ gpc = "setup"
            /\ 2 * Abs(10 * totalFrames - probeSecs * fps_) <= 10
            /\ ~autoDetectDuration
       /\ (isVideo_ /\ hasBackground_ /\ durationSec <= 0 /\ probeSecs = 40 /\ fps_ = 30)
            => totalFrames = 120
       /\ (isVideo_ /\ hasBackground_ /\ durationSec <= 0 /\ probeSecs <= 0) =>
            /\ gpc = "setup"
            /\ autoDetectDuration

\* a 4.0 s probe at 30 fps resolved to 120 frames
C7_Witness ==
    /\ gpc = "setup"
    /\ isVideo_
    /\ hasBackground_
    /\ durationSec <= 0
    /\ probeSecs = 40
    /\ fps_ = 30
    /\ totalFrames = 120
    /\ "probe" \in spawned

\* an explicit 5 s at 30 fps on a generator with a video background resolved
\* to 150 frames without probing
C7_WitnessExplicit ==
    /\ gpc = "setup"
    /\ isVideo_
    /\ hasBackground_
    /\ durationSec = 5
    /\ fps_ = 30
    /\ totalFrames = 150
    /\ spawned = {}

\* C8: in an unbounded run on a video source stage 0 leaves its loop exactly
\* on the short read, having processed every complete frame the source
\* delivered; generate then returns true, reports that frame count, and has
\* written that many frames when no stage dropped one.
C8_UnboundedEndsAtExhaustion ==
    (autoDetectDuration /\ isVideo_ /\ hasBackground_ /\ wpc[0] # "none") =>
       /\ renderCount[0] <= srcDelivered
       /\ wpc[0] \in {"end", "close", "done"} <=> sourceEnded
       /\ sourceEnded =>
            /\ srcEOF
            /\ stageFrameIndex[0] = srcDelivered
            /\ renderCount[0] = srcDelivered
       /\ gpc = "returned" =>
            /\ result = "true"
            /\ sourceEnded
            /\ sourceFrameCount = srcDelivered
            /\ endedAt = srcDelivered
            /\ DroppedFrames = {} => writtenFrames = srcDelivered

\* an unbounded two-stage run returned after the source delivered two frames
C8_Witness ==
    /\ autoDetectDuration
    /\ isVideo_
    /\ hasBackground_
    /\ NumStages = 2
    /\ gpc = "returned"
    /\ result = "true"
    /\ srcDelivered = 2
    /\ endedAt = 2
    /\ writtenFrames = 2

\* C9 (as stated): with no explicit positive duration and no video background
\* generate returns false with no effect initialized, no subprocess started,
\* no encoder opened and no worker spawned.
C9_NoDurationNoVideoFails ==
    (/\ gpc # "idle"
     /\ NumStages >= 1
     /\ durationSec <= 0
     /\ ~(isVideo_ /\ hasBackground_))
    => /\ gpc = "returned"
       /\ result = "false"
       /\ spawned = {}
       /\ ffmpegOutput_ = "null"
       /\ \A k \in StageIds : ~initialized[k] /\ wpc[k] = "none"

\* the same with isVideo_ itself unset, which is what the code tests
C9_NoDurationNoVideoFlagFails ==
    (/\ gpc # "idle"
     /\ NumStages >= 1
     /\ durationSec <= 0
     /\ ~isVideo_)
    => /\ gpc = "returned"
       /\ result = "false"
       /\ spawned = {}
       /\ ffmpegOutput_ = "null"
       /\ \A k \in StageIds : ~initialized[k] /\ wpc[k] = "none"

\* ------------------------------------------------ fade envelope on its own
InitFade ==
    /\ Constructed(FadeFpsValues, FadeCallDurations, FadeCallRatios, {0})
    /\ RunIdle

\* a call of getFadeMultiplier(frameNumber, totalFrames)
CallGetFadeMultiplier ==
    /\ \E total \in (0..MaxFadeTotal) \cup FadeCallTotals :
         \E frameNumber \in 0..total :
            fadeCall' = [frameNumber |-> frameNumber, totalFrames |-> total,
                         result |-> getFadeMultiplier(frameNumber, total)]
    /\ UNCHANGED <<genVars, ffmpegOutput_, callVars, printed, spawned, gpc, result, setupVars,
                   updateCount, queueVars, workerVars, sourceVars, collectorVars, endedAt,
                   unitVars>>

SpecFade == InitFade /\ [][CallGetFadeMultiplier]_vars

\* C10: with maxFadeRatio = 1, fadeFrames = floor(fadeSeconds * fps) > 0 and
\* totalFrames >= 2 * fadeFrames the multiplier is frame / fadeFrames below
\* fadeFrames, 1 from fadeFrames to totalFrames - fadeFrames, and
\* (totalFrames - frame) / fadeFrames after that, 0 at frame 0 and at totalFrames.
C10_FadeEnvelope ==
    LET ff == (fadeDuration_ * fps_) \div 10
        f == fadeCall.frameNumber
        t == fadeCall.totalFrames
        m == fadeCall.result IN
    (f >= 0 /\ maxFadeRatio_ = 100 /\ ff > 0 /\ t >= 2 * ff) =>
       /\ m.den > 0
       /\ f < ff => m.num * ff = f * m.den
       /\ (ff <= f /\ f <= t - ff) => m.num = m.den
       /\ f > t - ff => m.num * ff = (t - f) * m.den
       /\ (f = 0 \/ f = t) => m.num = 0
       /\ (fadeDuration_ = 10 /\ fps_ = 30 /\ t = 300) =>
            /\ f = 15 => 2 * m.num = m.den
            /\ f \in 30..270 => m.num = m.den
            /\ f = 285 => 2 * m.num = m.den

\* the spec case half-way through the fade-out: frame 285 of 300 gives 1/2
C10_Witness ==
    /\ fadeDuration_ = 10
    /\ fps_ = 30
    /\ maxFadeRatio_ = 100
    /\ fadeCall.totalFrames = 300
    /\ fadeCall.frameNumber = 285
    /\ 2 * fadeCall.result.num = fadeCall.result.den

\* ------------------------------------------------ a FrameQueue on its own
\* One producer thread and two consumer threads call push, pop and close on
\* one queue, stageQueues[theQueue]; the packets pushed are numbered.  A
\* call holds mu_ for one step; a wait whose predicate is false leaves the
\* thread waiting on its condition variable until a notify (or a spurious
\* wake-up) makes it test the predicate again.
theQueue == 0

\* threads waiting on cvNotEmpty_ (op = "pop") or on cvNotFull_ (op = "push")
Waiters(op) ==
    {t \in QueueThreads : queueCalls[t].op = op /\ queueCalls[t].st = "waiting"}

\* std::condition_variable::notify_one and notify_all: the sets of waiting
\* threads the call may wake
notify_none(W) == {{}}
notify_one(W) == IF W = {} THEN {{}} ELSE {{w} : w \in W}
notify_allWakesOne(W) == IF W = {} THEN {{}} ELSE {{w} : w \in W}
notify_all(W) == {W}

\* FrameQueue::pop, line 697: if (queue_.empty()) return false
popFailsWhenClosed(q) == closed_[q]
popFails(q) == Len(stageQueues[q]) = 0

\* the calls after thread t has returned with ret and out and the threads of W woke
Returned(t, ret, out, W) ==
    [u \in QueueThreads |->
        IF u = t THEN [queueCalls[t] EXCEPT !.st = "returned", !.ret = ret, !.out = out]
        ELSE IF u \in W THEN [queueCalls[u] EXCEPT !.st = "running"]
        ELSE queueCalls[u]]

queueFrame == <<genVars, ffmpegOutput_, callVars, printed, spawned, gpc, result, setupVars,
                updateCount, workerVars, sourceVars, collectorVars, endedAt, fadeCall,
                proc, child, closePc, pipeLog, unitCall>>

\* thread t calls push with a new packet
QueueCallPush(t) ==
    /\ t \in ProducerThreads
    /\ queueCalls[t].st \in {"idle", "returned"}
    /\ queueLog.calls < MaxQueueItems
    /\ queueCalls' = [queueCalls EXCEPT ![t] =
                        [op |-> "push", st |-> "running",
                         packet |-> FramePacket(FrameBytes, queueLog.calls),
                         ret |-> FALSE, out |-> NoPacket]]
    /\ queueLog' = [queueLog EXCEPT !.calls = @ + 1]
    /\ UNCHANGED <<queueVars, queueFrame>>

\* FrameQueue::push, lines 685-692, with mu_ held
QueuePush(t) ==
    /\ queueCalls[t].op = "push"
    /\ queueCalls[t].st = "running"
    /\ IF ~pushReady(theQueue)
       THEN /\ queueCalls' = [queueCalls EXCEPT ![t].st = "waiting"]
            /\ queueLog' = [queueLog EXCEPT !.blocked = queueCalls[t].packet.frameIndex]
            /\ UNCHANGED stageQueues
       ELSE IF closed_[theQueue]
       THEN /\ queueCalls' = Returned(t, FALSE, NoPacket, {})
            /\ UNCHANGED <<stageQueues, queueLog>>
       ELSE /\ stageQueues' = [stageQueues EXCEPT ![theQueue] =
                                 push_back(@, queueCalls[t].packet)]
            /\ queueLog' = [queueLog EXCEPT !.pushed =
                              Append(@, queueCalls[t].packet.frameIndex)]
            /\ \E W \in notify_one(Waiters("pop")) :
                  queueCalls' = Returned(t, TRUE, NoPacket, W)
    /\ UNCHANGED <<closed_, queueFrame>>

\* thread t calls pop
QueueCallPop(t) ==
    /\ t \in ConsumerThreads
    /\ queueCalls[t].st \in {"idle", "returned"}
    /\ queueCalls' = [queueCalls EXCEPT ![t] =
                        [op |-> "pop", st |-> "running", packet |-> NoPacket,
                         ret |-> FALSE, out |-> NoPacket]]
    /\ UNCHANGED <<queueLog, queueVars, queueFrame>>

\* FrameQueue::pop, lines 694-702, with mu_ held
QueuePop(t) ==
    /\ queueCalls[t].op = "pop"
    /\ queueCalls[t].st = "running"
    /\ IF ~popReady(theQueue)
       THEN /\ queueCalls' = [queueCalls EXCEPT ![t].st = "waiting"]
            /\ UNCHANGED <<stageQueues, queueLog>>
       ELSE IF popFails(theQueue)
       THEN /\ queueCalls' = Returned(t, FALSE, NoPacket, {})
            /\ UNCHANGED <<stageQueues, queueLog>>
       ELSE /\ stageQueues' = [stageQueues EXCEPT ![theQueue] = Tail(@)]
            /\ queueLog' = [queueLog EXCEPT !.popped =
                              Append(@, Head(stageQueues[theQueue]).frameIndex)]
            /\ \E W \in notify_one(Waiters("push")) :
                  queueCalls' = Returned(t, TRUE, Head(stageQueues[theQueue]), W)
    /\ UNCHANGED <<closed_, queueFrame>>

\* FrameQueue::close, lines 704-709
QueueClose(t) ==
    /\ queueCalls[t].st \in {"idle", "returned"}
    /\ closed_' = [closed_ EXCEPT ![theQueue] = TRUE]
    /\ \E Wpop \in notify_all(Waiters("pop")), Wpush \in notify_all(Waiters("push")) :
          queueCalls' = [Returned(t, FALSE, NoPacket, Wpop \cup Wpush) EXCEPT
                            ![t].op = "close", ![t].packet = NoPacket]
    /\ queueLog' = IF closed_[theQueue]
                   THEN [queueLog EXCEPT !.closedTwice = TRUE]
                   ELSE [queueLog EXCEPT !.atClose = Len(stageQueues[theQueue]),
                                         !.woken = Waiters("pop") \cup Waiters("push")]
    /\ UNCHANGED <<stageQueues, queueFrame>>

\* a wait may return without a notify; the predicate is then tested again
QueueSpuriousWake(t) ==
    /\ queueCalls[t].st = "waiting"
    /\ queueCalls' = [queueCalls EXCEPT ![t].st = "running"]
    /\ UNCHANGED <<queueLog, queueVars, queueFrame>>

InitQueue ==
    /\ Constructed({30}, {0}, MaxFadeRatios, {0})
    /\ RunIdle

NextQueue ==
    \E t \in QueueThreads :
        \/ QueueCallPush(t)
        \/ QueuePush(t)
        \/ QueueCallPop(t)
        \/ QueuePop(t)
        \/ QueueClose(t)
        \/ QueueSpuriousWake(t)

SpecQueue == InitQueue /\ [][NextQueue]_vars

\* a thread inside push or pop that can take mu_ eventually does
SpecQueueFair ==
    /\ InitQueue
    /\ [][NextQueue]_vars
    /\ \A t \in QueueThreads : WF_vars(QueuePush(t) \/ QueuePop(t))

\* the numbers of the packets in the queue, head first
QueuedIds == [n \in 1..Len(stageQueues[theQueue]) |-> stageQueues[theQueue][n].frameIndex]

\* thread t returns from a call of op in this step
Returns(t, op) ==
    /\ queueCalls[t].op = op
    /\ queueCalls[t].st # "returned"
    /\ queueCalls'[t].st = "returned"

\* C11: push returns false and enqueues nothing when the queue is closed, even
\* with room, and otherwise appends its packet at the tail and returns true;
\* pop returns false exactly when the queue is empty and closed and otherwise
\* returns the head; the packets popped followed by the packets queued are
\* always the packets accepted, in order, so what was queued at close is popped
\* in FIFO order before pop first returns false.
C11_PushPopResults ==
    /\ [](queueLog.popped \o QueuedIds = queueLog.pushed)
    /\ [][\A t \in QueueThreads :
            /\ Returns(t, "push") =>
                 IF closed_[theQueue]
                 THEN /\ ~queueCalls'[t].ret
                      /\ stageQueues' = stageQueues
                 ELSE /\ queueCalls'[t].ret
                      /\ Len(stageQueues[theQueue]) < queueCapacity
                      /\ stageQueues'[theQueue] =
                            stageQueues[theQueue] \o <<queueCalls[t].packet>>
            /\ Returns(t, "pop") =>
                 IF Len(stageQueues[theQueue]) = 0
                 THEN /\ closed_[theQueue]
                      /\ ~queueCalls'[t].ret
                      /\ stageQueues' = stageQueues
                 ELSE /\ queueCalls'[t].ret
                      /\ queueCalls'[t].out = Head(stageQueues[theQueue])
                      /\ stageQueues'[theQueue] = Tail(stageQueues[theQueue])]_vars

\* the queue was closed holding three packets; they were then popped in order,
\* a later pop returned false, and a push after the close was refused with room
C11_Witness ==
    /\ closed_[theQueue]
    /\ queueLog.atClose = 3
    /\ queueLog.pushed = <<0, 1, 2>>
    /\ queueLog.popped = <<0, 1, 2>>
    /\ queueCalls["t1"].op = "push" /\ queueCalls["t1"].st = "returned"
    /\ ~queueCalls["t1"].ret
    /\ queueCalls["t2"].op = "pop" /\ queueCalls["t2"].st = "returned"
    /\ ~queueCalls["t2"].ret
    /\ queueCalls["t3"].op = "pop" /\ queueCalls["t3"].st = "returned"
    /\ queueCalls["t3"].ret /\ queueCalls["t3"].out.frameIndex = 2

\* thread t is inside a call of op that has not returned
Inside(t, op) == queueCalls[t].op = op /\ queueCalls[t].st \in {"running", "waiting"}

\* thread t calls close in this step
Closes(t) ==
    /\ queueCalls[t].st \in {"idle", "returned"}
    /\ queueCalls'[t].op = "close"
    /\ \/ queueCalls'[t] # queueCalls[t]
       \/ queueCalls' = queueCalls /\ queueLog' # queueLog

\* C12: close wakes every thread waiting in push or pop, and after it no thread
\* waits on the closed queue: under fair scheduling a thread inside push returns
\* false and a thread inside pop on the empty queue returns false; a close of a
\* closed queue changes neither the queue nor any other thread's call.
C12_CloseWakesAll ==
    /\ [](closed_[theQueue] => Waiters("push") \cup Waiters("pop") = {})
    /\ \A t \in QueueThreads :
         /\ (closed_[theQueue] /\ Inside(t, "push"))
               ~> (queueCalls[t].op = "push" /\ queueCalls[t].st = "returned"
                   /\ ~queueCalls[t].ret)
         /\ (closed_[theQueue] /\ Inside(t, "pop") /\ Len(stageQueues[theQueue]) = 0)
               ~> (queueCalls[t].op = "pop" /\ queueCalls[t].st = "returned"
                   /\ ~queueCalls[t].ret)
    /\ [][\A t \in QueueThreads :
            Closes(t) =>
               /\ closed_'[theQueue]
               /\ stageQueues' = stageQueues
               /\ \A u \in QueueThreads \ {t} :
                     IF queueCalls[u].st = "waiting"
                     THEN queueCalls'[u] = [queueCalls[u] EXCEPT !.st = "running"]
                     ELSE queueCalls'[u] = queueCalls[u]
               /\ closed_[theQueue] =>
                     /\ closed_' = closed_
                     /\ \A u \in QueueThreads \ {t} : queueCalls'[u] = queueCalls[u]]_vars

\* both consumers were waiting in pop when the queue was closed, both have
\* returned false, and the queue has been closed a second time
C12_Witness ==
    /\ closed_[theQueue]
    /\ queueLog.woken = {"t2", "t3"}
    /\ queueLog.closedTwice
    /\ \A t \in {"t2", "t3"} :
         /\ queueCalls[t].op = "pop"
         /\ queueCalls[t].st = "returned"
         /\ ~queueCalls[t].ret

QueueFull == Len(stageQueues[theQueue]) = queueCapacity

\* C13: a push on a full, open queue does not return while the queue stays
\* full and open; the pop that takes one packet from the full queue wakes a
\* producer waiting in push, and the push that then completes on the open
\* queue appends its packet and returns true.
C13_BlockedPushUnblocksOnPop ==
    [][/\ \A t \in QueueThreads :
            Returns(t, "push") =>
               /\ ~(QueueFull /\ ~closed_[theQueue])
               /\ ~closed_[theQueue] =>
                     /\ queueCalls'[t].ret
                     /\ QueuedIds' = Append(QueuedIds, queueCalls[t].packet.frameIndex)
       /\ (/\ QueueFull
           /\ ~closed_[theQueue]
           /\ Waiters("push") # {}
           /\ Len(stageQueues'[theQueue]) = queueCapacity - 1)
          => /\ \E t \in Waiters("push") : queueCalls'[t].st = "running"
             /\ ~closed_'[theQueue]
             /\ pushReady(theQueue)'
       /\ (QueueFull /\ ~closed_[theQueue] /\ UNCHANGED queueVars)
          => \A t \in QueueThreads :
                Inside(t, "push") => Inside(t, "push")']_vars

\* the push of the ninth packet had to wait on the full queue and returned
\* true after the first packet was popped
C13_Witness ==
    /\ ~closed_[theQueue]
    /\ queueLog.blocked = queueCapacity
    /\ queueCalls["t1"].op = "push"
    /\ queueCalls["t1"].st = "returned"
    /\ queueCalls["t1"].ret
    /\ queueCalls["t1"].packet.frameIndex = queueCapacity
    /\ queueLog.popped = <<0>>
    /\ Len(stageQueues[theQueue]) = queueCapacity
    /\ stageQueues[theQueue][queueCapacity].frameIndex = queueCapacity

\* ----------------------------------------------- a ProcessPipe on its own
\* The inputs of one spawnProcessPipe call: whether args is empty, the mode
\* argument ("null" for a null pointer), the build (win32 or POSIX), whether
\* the pipe, the new process and the stream over the pipe's descriptor can be
\* created, and whether the executable args[0] can be run.
SpawnInputs ==
    [argsEmpty : BOOLEAN, mode : {"null", "r", "w", "x"}, win32 : BOOLEAN,
     pipeOk : BOOLEAN, forkOk : BOOLEAN, execOk : BOOLEAN, fdopenOk : BOOLEAN]

\* the child of a spawn as the operating system sees it; parentEnd tells
\* whether the parent's end of the pipe is open
Child(in, pid, parentEnd) ==
    [state |-> "running", mode |-> in.mode, execOk |-> in.execOk, pid |-> pid,
     parentEnd |-> parentEnd]

\* whether the call creates a process for args[0]: CreateProcessA fails for an
\* executable it cannot find; fork succeeds and the child fails in execvp
spawnCreates(in) == IF in.win32 THEN in.forkOk /\ in.execOk ELSE in.forkOk

\* VideoGenerator::spawnProcessPipe: the handle returned and the child created
spawnProcessPipe(in, pid) ==
    IF in.argsEmpty \/ in.mode = "null" THEN [handle |-> NullPipe, child |-> NoChild]
    ELSE IF in.mode \notin {"r", "w"} THEN [handle |-> NullPipe, child |-> NoChild]
    ELSE IF ~in.pipeOk THEN [handle |-> NullPipe, child |-> NoChild]
    ELSE IF ~spawnCreates(in) THEN [handle |-> NullPipe, child |-> NoChild]
    ELSE IF ~in.fdopenOk THEN [handle |-> NullPipe, child |-> Child(in, pid, FALSE)]
    ELSE [handle |-> [stream |-> TRUE, pid |-> pid], child |-> Child(in, pid, TRUE)]

pipeFrame == <<genVars, ffmpegOutput_, callVars, printed, spawned, gpc, result, setupVars,
               updateCount, queueVars, workerVars, sourceVars, collectorVars, endedAt,
               fadeCall, queueCalls, queueLog, unitCall>>

\* proc = spawnProcessPipe(args, mode, quiet) on a handle that holds no stream
SpawnCall ==
    /\ closePc = 0
    /\ ~proc.stream
    /\ \E in \in SpawnInputs, pid \in PidValues :
          /\ proc' = spawnProcessPipe(in, pid).handle
          /\ child' = spawnProcessPipe(in, pid).child
          /\ pipeLog' = [in |-> in, events |-> <<>>]
    /\ UNCHANGED <<closePc, pipeFrame>>

\* the child ends: at once when execvp failed (_exit(127)); a child that reads
\* its standard input (mode "w") not before the parent's end is closed
ChildExit ==
    /\ child.state = "running"
    /\ ~child.execOk \/ child.mode = "r" \/ ~child.parentEnd
    /\ child' = [child EXCEPT !.state = "exited"]
    /\ UNCHANGED <<proc, closePc, pipeLog, pipeFrame>>

\* closeProcessPipe, lines 282-297: what it does to a handle with a stream, in order
closeStepsWaitFirst == <<"waitpid", "fclose">>
closeSteps == <<"fclose", "waitpid">>

\* closeProcessPipe, lines 282-283: fclose(proc.stream); proc.stream = nullptr
afterFcloseStale(p) == p
afterFclose(p) == [p EXCEPT !.stream = FALSE]

\* closeProcessPipe(proc) is called; line 281: if (!proc.stream) return
ClosePipeCall ==
    /\ closePc = 0
    /\ Count(pipeLog.events, "closeProcessPipe") < MaxCloseCalls
    /\ pipeLog' = [pipeLog EXCEPT !.events = Append(@, "closeProcessPipe")]
    /\ closePc' = IF proc.stream THEN 1 ELSE 0
    /\ UNCHANGED <<proc, child, pipeFrame>>

\* the next step of closeProcessPipe; waitpid returns once the child has ended
ClosePipeStep ==
    /\ closePc > 0
    /\ IF closeSteps[closePc] = "fclose"
       THEN /\ proc' = afterFclose(proc)
            /\ child' = [child EXCEPT !.parentEnd = FALSE]
            /\ pipeLog' = [pipeLog EXCEPT !.events = Append(@, "fclose")]
       ELSE IF proc.pid > 0
       THEN /\ child.state = "exited"
            /\ proc' = [proc EXCEPT !.pid = -1]
            /\ child' = [child EXCEPT !.state = "reaped"]
            /\ pipeLog' = [pipeLog EXCEPT !.events = Append(@, "waitpid")]
       ELSE UNCHANGED <<proc, child, pipeLog>>
    /\ closePc' = IF closePc = Len(closeSteps) THEN 0 ELSE closePc + 1
    /\ UNCHANGED pipeFrame

InitPipe ==
    /\ Constructed({30}, {0}, MaxFadeRatios, {0})
    /\ RunIdle

NextPipe ==
    \/ SpawnCall
    \/ ChildExit
    \/ ClosePipeCall
    \/ ClosePipeStep

SpecPipe == InitPipe /\ [][NextPipe]_vars

\* the spawn call whose result proc still holds failed in one of the ways named
SpawnFailed(in) ==
    \/ in.argsEmpty
    \/ in.mode \notin {"r", "w"}
    \/ ~in.pipeOk
    \/ ~in.forkOk
    \/ ~in.execOk

\* C14: spawnProcessPipe returns a handle without a stream for an empty argv,
\* a bad mode, a failed pipe creation, a failed process creation and an
\* executable that cannot be run.
C14_SpawnFailureGivesNull ==
    (pipeLog.events = <<>> /\ SpawnFailed(pipeLog.in)) => ~proc.stream

\* the same without the executable that cannot be run on the POSIX build
C14_OtherFailuresGiveNull ==
    (/\ pipeLog.events = <<>>
     /\ SpawnFailed([pipeLog.in EXCEPT !.execOk = @ \/ ~pipeLog.in.win32]))
    => ~proc.stream

\* C15: a handle's stream is closed and its child reaped at most once; when
\* the first closeProcessPipe on a live handle has returned the stream is null,
\* the pid invalid and the child reaped; a call on a handle without a stream
\* (closed before, or never opened) closes nothing, waits for nothing and
\* leaves the handle as it was.
C15_CloseIdempotent ==
    /\ [](/\ Count(pipeLog.events, "fclose") <= 1
          /\ Count(pipeLog.events, "waitpid") <= 1
          /\ (closePc = 0 /\ Count(pipeLog.events, "fclose") = 1) =>
                /\ proc = [stream |-> FALSE, pid |-> -1]
                /\ child.state = "reaped"
                /\ IsPrefix(<<"closeProcessPipe", "fclose", "waitpid">>, pipeLog.events)
          /\ (closePc = 0 /\ Count(pipeLog.events, "fclose") = 0
                /\ Len(pipeLog.events) > 0) =>
                /\ proc = NullPipe
                /\ child.state # "reaped")
    /\ [][(/\ closePc = 0
           /\ ~proc.stream
           /\ Len(pipeLog'.events) = Len(pipeLog.events) + 1)
          => /\ proc' = proc
             /\ child' = child
             /\ closePc' = 0
             /\ pipeLog'.events = Append(pipeLog.events, "closeProcessPipe")]_vars

\* a live handle was closed and closeProcessPipe was then called again
C15_Witness ==
    /\ closePc = 0
    /\ pipeLog.events = <<"closeProcessPipe", "fclose", "waitpid", "closeProcessPipe">>
    /\ proc = [stream |-> FALSE, pid |-> -1]
    /\ child.state = "reaped"

\* closeProcessPipe called twice on the handle a failed spawn returned
C15_WitnessNeverOpened ==
    /\ closePc = 0
    /\ pipeLog.in.mode = "w" /\ ~pipeLog.in.pipeOk /\ ~pipeLog.in.argsEmpty
    /\ pipeLog.events = <<"closeProcessPipe", "closeProcessPipe">>
    /\ proc = NullPipe

\* closeProcessPipe is about to wait, or is waiting, for the child
AtWait == closePc > 0 /\ closeSteps[closePc] = "waitpid" /\ proc.pid > 0

\* C16: whenever closeProcessPipe waits for the child the stream has been
\* closed, so the parent's end of the pipe is closed and a child that runs
\* until end-of-input on its standard input can end; and no waitpid is logged
\* without the fclose right before it.
C16_CloseBeforeWait ==
    /\ AtWait =>
          /\ ~proc.stream
          /\ ~child.parentEnd
          /\ child.state = "exited" \/ ENABLED ChildExit
    /\ \A n \in 1..Len(pipeLog.events) :
          pipeLog.events[n] = "waitpid" => (n > 1 /\ pipeLog.events[n - 1] = "fclose")

\* closeProcessPipe waits for a running encoder-like child whose standard
\* input it has just closed
C16_Witness ==
    /\ AtWait
    /\ child.mode = "w"
    /\ child.execOk
    /\ child.state = "running"
    /\ ~child.parentEnd
    /\ pipeLog.events = <<"closeProcessPipe", "fclose">>

\* generate returned false out of the effect loop: effect setupIdx was null
\* or its initialize failed
InitFailed ==
    /\ gpc = "returned"
    /\ result = "false"
    /\ totalFrames > 0
    /\ setupIdx < NumStages

\* C17: when a stage fails to initialize generate returns false with the
\* encoder not opened, no update() run, no worker spawned and no later effect
\* initialized; the encoder is opened, update() is run and workers exist only
\* when every effect has been initialized.
C17_InitFailureAbortsBeforeOutput ==
    /\ InitFailed =>
          /\ ffmpegOutput_ = "null"
          /\ "encoder" \notin spawned
          /\ written = <<>>
          /\ \A k \in StageIds :
                /\ updateCount[k] = 0
                /\ renderCount[k] = 0
                /\ wpc[k] = "none"
                /\ initialized[k] <=> k < setupIdx
    /\ (\/ ffmpegOutput_ # "null"
        \/ "encoder" \in spawned
        \/ gpc \in {"open", "spawn"}
        \/ \E k \in StageIds : updateCount[k] > 0 \/ wpc[k] # "none")
       => \A k \in StageIds : k < NumStages => initialized[k]

\* the second of two effects failed to initialize on a generator with warmup
C17_Witness ==
    /\ InitFailed
    /\ NumStages = 2
    /\ setupIdx = 1
    /\ initialized[0]
    /\ ~initialized[1]
    /\ warmupFrames > 0
    /\ ffmpegOutput_ = "null"

\* the frame indices written to the encoder so far
WrittenIds == {written[n].frameIndex : n \in 1..Len(written)}

\* C18: the encoder is closed only when the collector has stopped and every
\* worker has ended; by then every frame stage 0 produced that no stage
\* dropped has been written, and every write went to the open encoder, none
\* to a closed one.
C18_ShutdownOrdering ==
    /\ ffmpegOutput_ = "closed" =>
          /\ gpc = "returned"
          /\ result = "true"
          /\ \A k \in StageIds : k < NumStages => wpc[k] = "done" /\ closed_[k]
          /\ WrittenIds = Range(rendered[0]) \ DroppedFrames
          /\ Len(written) = Cardinality(WrittenIds)
          /\ ~autoDetectDuration => Len(rendered[0]) = totalFrames
          /\ (autoDetectDuration /\ sourceEnded) => Len(rendered[0]) = srcDelivered
    /\ gpc \in {"collect", "write"} => ffmpegOutput_ = "open"
    /\ \A n \in 1..Len(written) : written[n].sink = "open"

\* an unbounded run on a video source ended by exhaustion, one frame dropped
\* and the other written, the encoder closed
C18_Witness ==
    /\ ffmpegOutput_ = "closed"
    /\ autoDetectDuration
    /\ sourceEnded
    /\ NumStages = 2
    /\ Cardinality(DroppedFrames) = 1
    /\ Len(written) = 1

\* a bounded run of three frames through two stages, the encoder closed
C18_WitnessBounded ==
    /\ ffmpegOutput_ = "closed"
    /\ ~autoDetectDuration
    /\ NumStages = 2
    /\ totalFrames = 3
    /\ Len(written) = 3

\* the frames stage k rendered and did not drop, in the order it rendered them
Forwarded(k) ==
    LET Kept(i) == i \notin dropped[k] IN SelectSeq(rendered[k], Kept)

\* C19: stage 0 numbers its frames 0, 1, 2, ... with its own counter; every
\* later stage works on the frames the stage before it forwarded, under the
\* indices they came with and in that order, whatever its own frame counter
\* is; so the collector pops and writes frames under the indices stage 0 gave.
C19_IndexPreserved ==
    /\ \A n \in 1..Len(rendered[0]) : rendered[0][n] = n - 1
    /\ \A k \in StageIds :
          (0 < k /\ k < NumStages) => IsPrefix(rendered[k], Forwarded(k - 1))
    /\ \A k \in StageIds :
          (k < NumStages /\ wpc[k] \in {"process", "push"}) =>
             /\ logicalFrame[k] \in 0..stageFrameIndex[0]
             /\ k = 0 => logicalFrame[k] = stageFrameIndex[k]
             /\ k > 0 => logicalFrame[k] = Forwarded(k - 1)[stageFrameIndex[k] + 1]
    /\ NumStages >= 1 =>
          /\ IsPrefix([n \in 1..Len(written) |-> written[n].frameIndex],
                      Forwarded(NumStages - 1))
          /\ (gpc = "write" /\ ~packet.end) =>
                packet.frameIndex = Forwarded(NumStages - 1)[Len(written) + 1]

\* stage 0 dropped frame 1, and stage 1, working on its second frame, holds
\* it as frame 2
C19_Witness ==
    /\ NumStages = 2
    /\ dropped[0] = {1}
    /\ wpc[1] = "push"
    /\ stageFrameIndex[1] = 1
    /\ logicalFrame[1] = 2

\* ---------------------------------------------- runs with a warmup setting
InitWarmup ==
    /\ Constructed(FpsValues, {0}, MaxFadeRatios, WarmupWideValues)
    /\ RunIdle

GenerateCallWarmup ==
    \E effs \in LongEffectLists, d \in Durations : generateCall(effs, d, ProbeSeconds)

NextWarmup ==
    \/ GenerateCallWarmup
    \/ SetupEffect
    \/ Warmup
    \/ StartOutput
    \/ SpawnWorkers
    \/ Worker
    \/ CollectorPop
    \/ CollectorWrite
    \/ JoinWorkers
    \/ CloseOutput

SpecWarmup == InitWarmup /\ [][NextWarmup]_vars

\* the integer nearest to max(0, warmupSeconds) * fps, a half rounding up
NearestWarmup ==
    LET x == Max0(warmupSeconds_) * fps_ IN
    CHOOSE n \in 0..(x + 1) : 10 * n - 5 <= x /\ x < 10 * n + 5

\* C20: no update() is called before every effect is initialized; the warmup
\* then calls each effect's update() round(max(0, warmupSeconds) * fps) times
\* with the encoder not yet opened, nothing rendered and nothing written, and
\* from then on each effect's update() count is that number plus the frames it
\* rendered; with warmupSeconds <= 0 the warmup calls no update().
C20_WarmupBeforeOutput ==
    \A k \in StageIds : k < NumStages =>
       /\ gpc = "setup" => updateCount[k] = 0 /\ renderCount[k] = 0
       /\ gpc = "open" =>
             /\ updateCount[k] = NearestWarmup
             /\ \A j \in StageIds : j < NumStages => initialized[j]
             /\ ffmpegOutput_ = "null"
             /\ "encoder" \notin spawned
             /\ renderCount[k] = 0
             /\ wpc[k] = "none"
             /\ written = <<>>
       /\ (gpc \in {"spawn", "collect", "write", "join", "close"} \/ ffmpegOutput_ # "null")
             => updateCount[k] = NearestWarmup + renderCount[k]
       /\ warmupSeconds_ <= 0 => updateCount[k] = renderCount[k]
       /\ renderCount[k] > 0 => updateCount[k] >= NearestWarmup

\* two effects have each been advanced by round(0.5 * 3) = 2 updates and the
\* encoder is not yet opened
C20_Witness ==
    /\ gpc = "open"
    /\ warmupSeconds_ = 5
    /\ fps_ = 3
    /\ NumStages = 2
    /\ updateCount[0] = 2
    /\ updateCount[1] = 2
    /\ ffmpegOutput_ = "null"
    /\ written = <<>>

\* with a negative warmup setting a run ended with as many updates as frames
C20_WitnessNoWarmup ==
    /\ gpc = "returned"
    /\ result = "true"
    /\ warmupSeconds_ < 0
    /\ updateCount[0] = 3
    /\ renderCount[0] = 3

\* ------------------------------------------------------- C21: setup order
\* positions in setupCalls of the calls made on the effect of one stage
CallsAt(stage, name) ==
    {i \in 1..Len(setupCalls) : setupCalls[i].stage = stage /\ setupCalls[i].call = name}

\* C21: effects are set up in declared order; each effect's initialize is
\* preceded by setGlobalWarmupSeconds(max(0, warmup)) and, in a bounded run, by
\* setTotalFrames(totalFrames); in an unbounded run setTotalFrames is never
\* called; every stage set up so far has had exactly one initialize
C21_SetupOrder ==
    gpc # "idle" =>
       /\ \A i, j \in 1..Len(setupCalls) :
            i < j => setupCalls[i].stage <= setupCalls[j].stage
       /\ \A k \in StageIds :
            /\ k < setupIdx => Cardinality(CallsAt(k, "initialize")) = 1
            /\ k > setupIdx => CallsAt(k, "initialize") = {}
            /\ \A i \in CallsAt(k, "initialize") :
                 /\ \E w \in CallsAt(k, "setGlobalWarmupSeconds") :
                      w < i /\ setupCalls[w].arg = Max0(warmupSeconds_)
                 /\ totalFrames # INT_MAX =>
                      \E t \in CallsAt(k, "setTotalFrames") :
                         t < i /\ setupCalls[t].arg = totalFrames
            /\ totalFrames = INT_MAX => CallsAt(k, "setTotalFrames") = {}

\* both effects of a bounded run have been set up
C21_Witness ==
    /\ gpc = "open"
    /\ NumStages = 2
    /\ totalFrames # INT_MAX
    /\ Len(setupCalls) = 6

\* both effects of an unbounded run have been set up
C21_WitnessUnbounded ==
    /\ gpc = "open"
    /\ NumStages = 2
    /\ autoDetectDuration
    /\ Len(setupCalls) = 4

\* ------------------------------------- C22: video exhausted in a bounded run
\* what generate prints on standard output in a run without incident
RoutineLines ==
    {"FFmpeg path", "Auto-detected background video duration", "Generating frames",
     "Warmup", "Progress", "Video saved"}

\* a bounded run with a video background whose source gave a short read before
\* totalFrames frames were delivered
ExhaustedBounded ==
    /\ isVideo_
    /\ hasBackground_
    /\ totalFrames # INT_MAX
    /\ wpc[0] # "none"
    /\ srcEOF
    /\ srcDelivered < totalFrames

\* C22 (as stated): in a bounded run with a video background whose source ends
\* before totalFrames, stage 0 keeps producing frames, a warning is printed,
\* totalFrames frames minus the dropped ones are written and generate returns
\* true.
C22_ExhaustionWarns ==
    (ExhaustedBounded /\ gpc = "returned") =>
       /\ result = "true"
       /\ renderCount[0] = totalFrames
       /\ writtenFrames = totalFrames - Cardinality(DroppedFrames)
       /\ printed \ RoutineLines # {}

\* C22 without the warning: the run renders totalFrames frames at stage 0,
\* each on a full-size buffer, writes all but the dropped ones and returns true
C22_ExhaustionHoldsLastFrame ==
    /\ (ExhaustedBounded /\ wpc[0] \in {"process", "push"}) => frame[0] = FrameBytes
    /\ (ExhaustedBounded /\ gpc = "returned") =>
          /\ result = "true"
          /\ renderCount[0] = totalFrames
          /\ writtenFrames = totalFrames - Cardinality(DroppedFrames)
          /\ printed \subseteq RoutineLines

\* a three-frame run whose source ended after one frame has returned
C22_Witness ==
    /\ ExhaustedBounded
    /\ gpc = "returned"
    /\ totalFrames = 3
    /\ srcDelivered = 1
    /\ renderCount[0] = 3

\* ---------------------------------------------------- C23: collector fade
\* C23: the collector darkens a frame only in a bounded run with
\* fadeDuration > 0 and no background; with a background every frame is
\* written with the bytes popped from the final queue, undarkened
C23_CollectorFadeOnlyWithoutBackground ==
    /\ \A n \in 1..Len(written) :
         /\ FracLess1(written[n].fade) =>
               ~hasBackground_ /\ fadeDuration_ > 0 /\ ~autoDetectDuration
         /\ hasBackground_ =>
               /\ FracEq(written[n].fade, One)
               /\ written[n].bytes = FrameBytes
    /\ (gpc = "write" /\ hasBackground_) =>
          /\ ENABLED CollectorWrite
          /\ collectorFade(packet.frameIndex) = One

\* with a background, a frame inside the fade window was written undarkened
C23_Witness ==
    /\ hasBackground_
    /\ fadeDuration_ > 0
    /\ ~autoDetectDuration
    /\ Len(written) >= 1
    /\ FracLess1(getFadeMultiplier(written[1].frameIndex, totalFrames))
    /\ FracEq(written[1].fade, One)

\* without a background, a frame inside the fade window was written darkened
C23_WitnessDarkened ==
    /\ ~hasBackground_
    /\ Len(written) >= 1
    /\ FracLess1(written[1].fade)

\* ------------------------------------------------- C24: single ownership
\* the stage worker's local frame holds the buffer of logical frame i
StageHolds(k, i) ==
    k < NumStages /\ wpc[k] \in {"process", "push"} /\ logicalFrame[k] = i

\* the slots of queue q that hold the buffer of logical frame i
QueueSlots(q, i) ==
    {n \in 1..Len(stageQueues[q]) :
        ~stageQueues[q][n].end /\ stageQueues[q][n].frameIndex = i}

\* the collector's local packet holds the buffer of logical frame i
CollectorHolds(i) == gpc = "write" /\ ~packet.end /\ packet.frameIndex = i

\* how many owners the buffer of logical frame i has
Owners(i) ==
    Cardinality({k \in StageIds : StageHolds(k, i)})
    + Cardinality({<<q, n>> \in StageIds \X (1..queueCapacity) : n \in QueueSlots(q, i)})
    + (IF CollectorHolds(i) THEN 1 ELSE 0)

\* stage 0 has created the buffer of logical frame i
Created(i) == i \in Range(rendered[0]) \/ StageHolds(0, i)

\* the buffer of logical frame i has been destroyed: written by the collector,
\* or dropped by a stage that has finished the iteration
Released(i) ==
    \/ i \in WrittenIds
    \/ \E k \in StageIds : i \in dropped[k] /\ ~StageHolds(k, i)

\* C24: every frame buffer that exists has exactly one owner (a stage's local
\* frame, one queue slot, or the collector's packet), never two; a buffer not
\* yet created or already destroyed has none; a stage that has pushed a frame
\* no longer holds it
C24_SingleOwner ==
    \A i \in 0..stageFrameIndex[0] :
       /\ Owners(i) <= 1
       /\ (Created(i) /\ ~Released(i)) <=> Owners(i) = 1
       /\ \A k \in StageIds : QueueSlots(k, i) # {} => ~StageHolds(k, i)

\* three buffers are in flight at once, one per owner kind: the collector
\* holds frame 0, a queue slot frame 1, and stage 0 frame 2
C24_Witness ==
    /\ NumStages = 2
    /\ CollectorHolds(0)
    /\ \E q \in StageIds : QueueSlots(q, 1) # {}
    /\ StageHolds(0, 2)

\* ---------------------------------------------------- C25: backpressure
\* packets stage q has finished pushing into its output queue: the frames it
\* kept, less the one it is about to push, and its end packet
PushedBy(q) ==
    Len(Forwarded(q))
    - (IF wpc[q] = "push" /\ ~dropFrame[q] THEN 1 ELSE 0)
    + (IF wpc[q] \in {"close", "done"} THEN 1 ELSE 0)

\* packets the consumer of queue q has popped: the next stage (the frames it
\* rendered, the one it has just taken, and the end packet that made it leave
\* its loop early), or the collector for the last queue
PoppedFrom(q) ==
    IF q < NumStages - 1
    THEN Len(rendered[q + 1])
         + (IF wpc[q + 1] = "process" THEN 1 ELSE 0)
         + (IF wpc[q + 1] \in {"end", "close", "done"}
               /\ stageFrameIndex[q + 1] < totalFrames THEN 1 ELSE 0)
    ELSE Len(written)
         + (IF gpc = "write" THEN 1 ELSE 0)
         + (IF gpc \in {"join", "close"} \/ (gpc = "returned" /\ result = "true")
            THEN 1 ELSE 0)

\* C25: for every queue, the packets its producer has finished pushing less
\* the packets its consumer has popped are the packets in the queue and at
\* most queueCapacity (8); counting the packet the producer holds, the producer
\* is at most queueCapacity + 1 ahead
C25_BackpressureBound ==
    \A q \in StageIds :
       (q < NumStages /\ wpc[q] # "none") =>
          /\ PushedBy(q) - PoppedFrom(q) = Len(stageQueues[q])
          /\ PushedBy(q) - PoppedFrom(q) <= queueCapacity
          /\ (PushedBy(q) + (IF wpc[q] \in {"process", "push", "end"} THEN 1 ELSE 0))
                - PoppedFrom(q) <= queueCapacity + 1

\* stage 0 is eight packets ahead of a stage 1 that has popped one, and holds
\* a ninth
C25_Witness ==
    /\ NumStages = 2
    /\ PoppedFrom(0) = 1
    /\ PushedBy(0) = queueCapacity + 1
    /\ wpc[0] = "push"
    /\ ~dropFrame[0]

\* ------------------------------------------ C26: handles at the end of a run
\* C26 (as stated): when generate returns, on success or on any of its early
\* returns, neither the background-decode child nor the encoder child is left
\* with an open stream.
C26_HandlesClosedAtReturn ==
    gpc = "returned" => ~videoInput_ /\ ffmpegOutput_ # "open"

\* C26 for the encoder alone: generate never returns with ffmpegOutput_ open,
\* and returns true only with it closed
C26_EncoderClosedAtReturn ==
    gpc = "returned" =>
       /\ ffmpegOutput_ # "open"
       /\ result = "true" <=> ffmpegOutput_ = "closed"

\* generate has returned from a complete run with the decode stream still open
C26_Witness ==
    /\ gpc = "returned"
    /\ result = "true"
    /\ videoInput_
    /\ ffmpegOutput_ = "closed"

\* ------------------------------------ setBackgroundImage taken on its own
MaxImageLoads == 2

\* what the operating system can do to the spawn that loadBackgroundImage
\* makes: args is not empty and mode is "r"
ImageSpawnInputs == {in \in SpawnInputs : ~in.argsEmpty /\ in.mode = "r"}

\* loadBackgroundImage, line 377: the read filled backgroundBuffer_
loadCompleteAnyBytes(bytesRead) == bytesRead > 0
loadComplete(bytesRead) == bytesRead = FrameBytes

\* what fread can return at line 374: a child whose execvp failed writes nothing
imageBytes == IF child.execOk THEN 0..FrameBytes ELSE {0}

imageFrame == <<fps_, fadeDuration_, maxFadeRatio_, warmupSeconds_, backgroundVideo_,
                videoInput_, ffmpegOutput_, callVars, spawned, gpc, result, setupVars,
                updateCount, queueVars, workerVars, sourceVars, collectorVars, endedAt,
                fadeCall, queueCalls, queueLog>>

\* setBackgroundImage is called; loadBackgroundImage, lines 359-371: the spawn,
\* and the return when it gave no stream
LoadImageCall ==
    /\ gpc = "idle"
    /\ closePc = 0
    /\ \/ unitCall = NoCall
       \/ unitCall.fn = "loadBackgroundImage" /\ unitCall.pc = "returned"
                                               /\ unitCall.n < MaxImageLoads
    /\ \E in \in ImageSpawnInputs, pid \in PidValues :
         LET r == spawnProcessPipe(in, pid)
             n == IF unitCall = NoCall THEN 1 ELSE unitCall.n + 1 IN
         /\ proc' = r.handle
         /\ child' = r.child
         /\ pipeLog' = [in |-> in, events |-> <<>>]
         /\ IF r.handle.stream
            THEN /\ unitCall' = [fn |-> "loadBackgroundImage", pc |-> "read", n |-> n,
                                 opened |-> TRUE, bytesRead |-> 0, ret |-> FALSE]
                 /\ UNCHANGED <<hasBackground_, isVideo_, printed>>
            ELSE /\ unitCall' = [fn |-> "loadBackgroundImage", pc |-> "returned", n |-> n,
                                 opened |-> FALSE, bytesRead |-> 0, ret |-> FALSE]
                 /\ printed' = printed \cup {"Failed to load background image"}
                 /\ hasBackground_' = FALSE
                 /\ isVideo_' = FALSE
    /\ UNCHANGED <<closePc, imageFrame>>

\* loadBackgroundImage, lines 373-375: fread, then closeProcessPipe(pipe) is
\* entered with a stream
LoadImageRead ==
    /\ unitCall.fn = "loadBackgroundImage"
    /\ unitCall.pc = "read"
    /\ \E b \in imageBytes : unitCall' = [unitCall EXCEPT !.pc = "close", !.bytesRead = b]
    /\ pipeLog' = [pipeLog EXCEPT !.events = Append(@, "closeProcessPipe")]
    /\ closePc' = IF proc.stream THEN 1 ELSE 0
    /\ UNCHANGED <<proc, child, hasBackground_, isVideo_, printed, imageFrame>>

\* loadBackgroundImage, lines 377-383, once closeProcessPipe has returned, and
\* setBackgroundImage, lines 453-455
LoadImageReturn ==
    /\ unitCall.fn = "loadBackgroundImage"
    /\ unitCall.pc = "close"
    /\ closePc = 0
    /\ LET ok == loadComplete(unitCall.bytesRead) IN
       /\ unitCall' = [unitCall EXCEPT !.pc = "returned", !.ret = ok]
       /\ printed' = printed \cup {IF ok THEN "Background image loaded"
                                         ELSE "Failed to read complete background image"}
       /\ hasBackground_' = ok
       /\ isVideo_' = FALSE
    /\ UNCHANGED <<proc, child, closePc, pipeLog, imageFrame>>

InitImage ==
    /\ Constructed({30}, {0}, MaxFadeRatios, {0})
    /\ RunIdle

NextImage ==
    \/ LoadImageCall
    \/ LoadImageRead
    \/ ChildExit
    \/ ClosePipeStep
    \/ LoadImageReturn

SpecImage == InitImage /\ [][NextImage]_vars

\* --------------------------------------------- C27: still-image load
\* C27: when setBackgroundImage has returned, it returned true and
\* hasBackground_ is true only if the spawn gave a stream and the read gave
\* width*height*3 bytes; a spawn without a stream and a short read both give
\* false; and whenever the spawn gave a stream the decode child has been
\* closed and waited for, by one fclose followed by one waitpid
C27_ImageLoad ==
    (unitCall.fn = "loadBackgroundImage" /\ unitCall.pc = "returned") =>
       /\ hasBackground_ = unitCall.ret
       /\ ~isVideo_
       /\ ~unitCall.opened => ~unitCall.ret
       /\ unitCall.bytesRead < Width * Height * 3 => ~unitCall.ret
       /\ unitCall.ret <=> (unitCall.opened /\ unitCall.bytesRead = Width * Height * 3)
       /\ unitCall.opened =>
            /\ proc = NullPipe
            /\ child.state = "reaped"
            /\ ~child.parentEnd
            /\ pipeLog.events = <<"closeProcessPipe", "fclose", "waitpid">>

\* a second load, after one that succeeded, read one byte too few: it
\* returned false with the decode child reaped
C27_Witness ==
    /\ unitCall.fn = "loadBackgroundImage"
    /\ unitCall.pc = "returned"
    /\ unitCall.n = 2
    /\ unitCall.opened
    /\ unitCall.bytesRead = FrameBytes - 1
    /\ ~hasBackground_
    /\ child.state = "reaped"
    /\ "Background image loaded" \in printed

\* a load succeeded with the decode child reaped
C27_WitnessLoaded ==
    /\ unitCall.fn = "loadBackgroundImage"
    /\ unitCall.pc = "returned"
    /\ unitCall.ret
    /\ hasBackground_
    /\ child.state = "reaped"

\* -------------------------------------- probeVideoDuration taken on its own
\* what ffprobe can write on its standard output, a sequence of characters
ProbeOutputs ==
    { <<>>, <<"\n">>, <<"N", "/", "A", "\n">>, <<"0", ".", "0", "\n">>,
      <<"-", "1", ".", "0", "\n">>, <<"0", ".", "5", "\n">>,
      <<" ", "1", ".", "0", "\n">>, <<"1", "2", "\n">> }

Digits == <<"0", "1", "2", "3", "4", "5", "6", "7", "8", "9">>
IsDigit(c) == \E d \in 1..10 : Digits[d] = c
DigitOf(c) == (CHOOSE d \in 1..10 : Digits[d] = c) - 1

RECURSIVE skipSpace(_)
skipSpace(t) ==
    IF t # <<>> /\ Head(t) \in {" ", "\n", "\t"} THEN skipSpace(Tail(t)) ELSE t

RECURSIVE digitsPrefix(_)
digitsPrefix(t) ==
    IF t = <<>> \/ ~IsDigit(Head(t)) THEN <<>> ELSE <<Head(t)>> \o digitsPrefix(Tail(t))

RECURSIVE decimalValue(_)
decimalValue(ds) ==
    IF ds = <<>> THEN 0
    ELSE 10 * decimalValue(SubSeq(ds, 1, Len(ds) - 1)) + DigitOf(ds[Len(ds)])

\* atof, in tenths, of a text with at most one decimal place: white space,
\* an optional sign, digits, an optional point and digits; what follows is
\* ignored and a text with no number gives 0
atof(text) ==
    LET t == skipSpace(text)
        neg == t # <<>> /\ Head(t) = "-"
        body == IF t # <<>> /\ Head(t) \in {"-", "+"} THEN Tail(t) ELSE t
        ip == digitsPrefix(body)
        rest == SubSeq(body, Len(ip) + 1, Len(body))
        fp == IF rest # <<>> /\ Head(rest) = "." THEN digitsPrefix(Tail(rest)) ELSE <<>>
        mag == 10 * decimalValue(ip) + (IF fp = <<>> THEN 0 ELSE DigitOf(fp[1]))
    IN IF neg THEN 0 - mag ELSE mag

\* probeVideoDuration, lines 436-442: the result for the output read
probeResult(out) ==
    IF out = <<>> THEN -10
    ELSE IF atof(out) <= 0 THEN -10
    ELSE atof(out)

probeFrame == <<genVars, ffmpegOutput_, callVars, printed, spawned, gpc, result,
                setupVars, updateCount, queueVars, workerVars, sourceVars,
                collectorVars, endedAt, fadeCall>>

ProbeEffects == <<DefaultEffect>>

\* setBackgroundVideo before the run
ProbeSetBackground ==
    /\ unitCall = NoCall
    /\ \E ok \in BOOLEAN : setBackgroundVideo(ok)

\* generate is called with durationSec = 0 on a generator with isVideo_ set and
\* calls probeVideoDuration; lines 411-427: findFFmpeg and the spawn, and
\* generate's lines 632-646 when the probe returns at once
ProbeCall ==
    /\ gpc = "idle"
    /\ isVideo_
    /\ unitCall = NoCall
    /\ \E found \in BOOLEAN, in \in ImageSpawnInputs, pid \in PidValues :
         LET r == spawnProcessPipe(in, pid) IN
         IF ~found
         THEN /\ unitCall' = [fn |-> "probeVideoDuration", pc |-> "returned",
                              found |-> FALSE, opened |-> FALSE, out |-> <<>>,
                              secs |-> -10]
              /\ generateResolve(ProbeEffects, 0,
                                 {[found |-> FALSE, spawn |-> FALSE, secs |-> -10]})
              /\ UNCHANGED <<queueCalls, queueLog, proc, child, closePc, pipeLog>>
         ELSE /\ proc' = r.handle
              /\ child' = r.child
              /\ pipeLog' = [in |-> in, events |-> <<>>]
              /\ UNCHANGED <<queueCalls, queueLog, closePc>>
              /\ IF r.handle.stream
                 THEN /\ unitCall' = [fn |-> "probeVideoDuration", pc |-> "read",
                                      found |-> TRUE, opened |-> TRUE, out |-> <<>>,
                                      secs |-> 0]
                      /\ UNCHANGED probeFrame
                 ELSE /\ unitCall' = [fn |-> "probeVideoDuration", pc |-> "returned",
                                      found |-> TRUE, opened |-> FALSE, out |-> <<>>,
                                      secs |-> -10]
                      /\ generateResolve(ProbeEffects, 0,
                                         {[found |-> TRUE, spawn |-> r.child # NoChild,
                                           secs |-> -10]})

\* probeVideoDuration, lines 429-434: fgets until end of file, then
\* closeProcessPipe(pipe) is entered with a stream; a child whose execvp failed
\* writes nothing, and ffprobe writes nothing for a file it cannot open
ProbeRead ==
    /\ unitCall.fn = "probeVideoDuration"
    /\ unitCall.pc = "read"
    /\ \E out \in (IF child.execOk /\ backgroundVideo_ THEN ProbeOutputs ELSE {<<>>}) :
         unitCall' = [unitCall EXCEPT !.pc = "close", !.out = out]
    /\ pipeLog' = [pipeLog EXCEPT !.events = Append(@, "closeProcessPipe")]
    /\ closePc' = IF proc.stream THEN 1 ELSE 0
    /\ UNCHANGED <<queueCalls, queueLog, proc, child, probeFrame>>

\* probeVideoDuration, lines 436-442, once closeProcessPipe has returned, and
\* generate, lines 632-646
ProbeReturn ==
    /\ unitCall.fn = "probeVideoDuration"
    /\ unitCall.pc = "close"
    /\ closePc = 0
    /\ LET secs == probeResult(unitCall.out) IN
       /\ unitCall' = [unitCall EXCEPT !.pc = "returned", !.secs = secs]
       /\ generateResolve(ProbeEffects, 0,
                          {[found |-> TRUE, spawn |-> TRUE, secs |-> secs]})
    /\ UNCHANGED <<queueCalls, queueLog, proc, child, closePc, pipeLog>>

InitProbe ==
    /\ Constructed({1, 30}, {0}, MaxFadeRatios, {0})
    /\ RunIdle

NextProbe ==
    \/ ProbeSetBackground
    \/ ProbeCall
    \/ ProbeRead
    \/ ChildExit
    \/ ClosePipeStep
    \/ ProbeReturn

SpecProbe == InitProbe /\ [][NextProbe]_vars

\* ------------------------------------------------ C28: probing fails soft
\* probeVideoDuration has returned to generate, which has resolved the duration
ProbeReturned == unitCall.fn = "probeVideoDuration" /\ unitCall.pc = "returned"

\* the probe met one of the four failures: ffprobe not found, no stream from
\* the spawn, empty output, or a parsed value that is not positive
ProbeFailed ==
    \/ ~unitCall.found
    \/ ~unitCall.opened
    \/ unitCall.out = <<>>
    \/ atof(unitCall.out) <= 0

\* C28 (as stated): on each of the four failures probeVideoDuration returns a
\* non-positive value and generate goes on as an unbounded run; and whenever a
\* probe child was spawned it has been closed and reaped when the function
\* returns.
C28_ProbeFailsSoft ==
    ProbeReturned =>
       /\ ProbeFailed =>
            /\ unitCall.secs <= 0
            /\ gpc = "setup"
            /\ result = "none"
            /\ totalFrames = INT_MAX
            /\ autoDetectDuration
       /\ child # NoChild => child.state = "reaped" /\ proc = NullPipe

\* C28 for a spawn that gave a stream: the four failures give a non-positive
\* value and an unbounded run, a positive value is the parsed one, and the
\* probe child behind the stream has been closed and reaped at the return
C28_ProbeFailsSoftWithStream ==
    ProbeReturned =>
       /\ ProbeFailed =>
            /\ unitCall.secs <= 0
            /\ gpc = "setup"
            /\ result = "none"
            /\ totalFrames = INT_MAX
            /\ autoDetectDuration
       /\ ~ProbeFailed =>
            /\ unitCall.secs = atof(unitCall.out)
            /\ totalFrames = Round(unitCall.secs * fps_, 10)
            /\ ~autoDetectDuration
       /\ unitCall.opened =>
            /\ child.state = "reaped"
            /\ proc = NullPipe
            /\ pipeLog.events = <<"closeProcessPipe", "fclose", "waitpid">>

\* ffprobe wrote N/A: the probe returned unknown with its child reaped and
\* generate went on unbounded
C28_Witness ==
    /\ ProbeReturned
    /\ unitCall.out = <<"N", "/", "A", "\n">>
    /\ unitCall.secs = -10
    /\ child.state = "reaped"
    /\ autoDetectDuration
    /\ gpc = "setup"

\* the probe returned after a spawn whose fdopen failed, leaving its child
C28_WitnessChildLeft ==
    /\ ProbeReturned
    /\ ~unitCall.opened
    /\ child # NoChild
    /\ child.state # "reaped"

\* --------------------------------------- startFFmpegOutput taken on its own
Upper == <<"A", "B", "C", "D", "E", "F", "G", "H", "I", "J", "K", "L", "M",
           "N", "O", "P", "Q", "R", "S", "T", "U", "V", "W", "X", "Y", "Z">>
Lower == <<"a", "b", "c", "d", "e", "f", "g", "h", "i", "j", "k", "l", "m",
           "n", "o", "p", "q", "r", "s", "t", "u", "v", "w", "x", "y", "z">>

\* std::tolower in the C locale
tolower(c) ==
    IF \E i \in 1..26 : Upper[i] = c
    THEN Lower[CHOOSE i \in 1..26 : Upper[i] = c]
    ELSE c

\* std::string::find_last_of('.'): the position, from 0, or -1 for npos
find_last_of(out, c) ==
    IF \E d \in 1..Len(out) : out[d] = c
    THEN (CHOOSE d \in 1..Len(out) : out[d] = c /\ \A j \in (d + 1)..Len(out) : out[j] # c) - 1
    ELSE -1

\* startFFmpegOutput, lines 522-530: the output extension, lower-cased
outExtCaseSensitive(filename) ==
    LET dot == find_last_of(filename, ".") IN
    IF dot # -1 /\ dot + 1 < Len(filename)
    THEN SubSeq(filename, dot + 2, Len(filename))
    ELSE <<>>
outExt(filename) ==
    LET dot == find_last_of(filename, ".") IN
    IF dot # -1 /\ dot + 1 < Len(filename)
    THEN [j \in 1..(Len(filename) - dot - 1) |-> tolower(filename[dot + 1 + j])]
    ELSE <<>>

\* the elements of an argument list: a literal, a number printed by
\* std::to_string, the video size, a file name, a token of FFMPEG_PARAMETERS
Lit(s) == [lit |-> s]
Num(n) == [num |-> n]
Size(w, h) == [w |-> w, h |-> h]
File(f) == [file |-> f]
Tok(t) == [tok |-> t]

\* startFFmpegOutput, lines 474-482: the raw-input framing every list starts with
rawInputArgs ==
    << Lit("ffmpeg"), Lit("-y"), Lit("-f"), Lit("rawvideo"),
       Lit("-pixel_format"), Lit("rgb24"), Lit("-video_size"), Size(Width, Height),
       Lit("-framerate"), Num(fps_), Lit("-i"), Lit("-") >>

isspace(c) == c \in {" ", "\t", "\n"}

\* startFFmpegOutput, lines 485-509: FFMPEG_PARAMETERS split on unquoted white space
RECURSIVE splitFromAnyQuoteCloses(_, _, _, _, _)
splitFromAnyQuoteCloses(p, cur, inQuote, quoteChar, extra) ==
    IF p = <<>> THEN (IF cur # <<>> THEN Append(extra, cur) ELSE extra)
    ELSE LET c == Head(p) IN
         IF c \in {"\"", "'"}
         THEN IF inQuote THEN splitFromAnyQuoteCloses(Tail(p), cur, FALSE, "", extra)
                         ELSE splitFromAnyQuoteCloses(Tail(p), cur, TRUE, c, extra)
         ELSE IF ~inQuote /\ isspace(c)
         THEN IF cur # <<>>
              THEN splitFromAnyQuoteCloses(Tail(p), <<>>, inQuote, quoteChar, Append(extra, cur))
              ELSE splitFromAnyQuoteCloses(Tail(p), cur, inQuote, quoteChar, extra)
         ELSE splitFromAnyQuoteCloses(Tail(p), Append(cur, c), inQuote, quoteChar, extra)
RECURSIVE splitFrom(_, _, _, _, _)
splitFrom(p, cur, inQuote, quoteChar, extra) ==
    IF p = <<>> THEN (IF cur # <<>> THEN Append(extra, cur) ELSE extra)
    ELSE LET c == Head(p) IN
         IF c \in {"\"", "'"} /\ (~inQuote \/ c = quoteChar)
         THEN IF inQuote THEN splitFrom(Tail(p), cur, FALSE, "", extra)
                         ELSE splitFrom(Tail(p), cur, TRUE, c, extra)
         ELSE IF ~inQuote /\ isspace(c)
         THEN IF cur # <<>> THEN splitFrom(Tail(p), <<>>, inQuote, quoteChar, Append(extra, cur))
                            ELSE splitFrom(Tail(p), cur, inQuote, quoteChar, extra)
         ELSE splitFrom(Tail(p), Append(cur, c), inQuote, quoteChar, extra)

splitParams(customParams) == splitFrom(customParams, <<>>, FALSE, "", <<>>)

\* startFFmpegOutput, lines 533-543
audioArgs1(s) ==
    IF s.audioCodec # ""
    THEN << Lit("-i"), [backgroundVideo |-> backgroundVideo_], Lit("-map"), Lit("0:v:0"),
            Lit("-map"), Lit("1:a:0") >>
    ELSE << >>
audioArgs2(s) ==
    IF s.audioCodec = "" THEN << >>
    ELSE IF s.audioBitrate = "" THEN << Lit("-c:a"), Lit(s.audioCodec) >>
    ELSE << Lit("-c:a"), Lit(s.audioCodec), Lit("-b:a"), Lit(s.audioBitrate) >>

\* startFFmpegOutput, lines 471-601: the argument list of the encoder; env is
\* the value of FFMPEG_PARAMETERS, s the generator's crf and audio settings
encoderArgs(filename, env, s) ==
    IF env.set /\ env.text # <<>>
    THEN rawInputArgs \o [j \in 1..Len(splitParams(env.text)) |-> Tok(splitParams(env.text)[j])]
         \o << File(filename) >>
    ELSE IF outExt(filename) = <<"w", "e", "b", "m">>
    THEN rawInputArgs
         \o << Lit("-c:v"), Lit("libsvtav1"), Lit("-preset"), Lit("7"), Lit("-crf"), Num(s.crf),
               Lit("-pix_fmt"), Lit("yuv420p"), File(filename), Lit("-hide_banner"),
               Lit("-loglevel"), Lit("error") >>
    ELSE IF outExt(filename) = <<"m", "o", "v">>
    THEN rawInputArgs
         \o << Lit("-c:v"), Lit("prores_ks"), Lit("-profile:v"), Lit("3"), Lit("-qscale:v"),
               Num(s.crf), Lit("-pix_fmt"), Lit("yuv422p10le"), File(filename),
               Lit("-hide_banner"), Lit("-loglevel"), Lit("error") >>
    ELSE rawInputArgs
         \o audioArgs1(s)
         \o << Lit("-c:v"), Lit("libx264"), Lit("-preset"), Lit("medium"), Lit("-crf"),
               Num(s.crf), Lit("-pix_fmt"), Lit("yuv420p") >>
         \o audioArgs2(s)
         \o << Lit("-movflags"), Lit("faststart"), File(filename), Lit("-hide_banner"),
               Lit("-loglevel"), Lit("error") >>

FileNames ==
    { <<"a">>, <<"a", ".">>, <<"w", "e", "b", "m">>, <<".", "m", "o", "v">>,
      <<"a", ".", "m", "p", "4">>, <<"a", ".", "w", "e", "b", "m">>,
      <<"b", ".", "W", "e", "b", "M">>, <<"a", ".", "M", "O", "V">>,
      <<"b", ".", "m", "o", "v">>, <<"a", ".", "m", "o", "v", ".", "m", "p", "4">>,
      <<"d", ".", "m", "o", "v", "/", "a">>, <<"a", ".", "m", "p", "4", ".", "w", "e", "b", "m">> }

\* values of FFMPEG_PARAMETERS: unset, or any text of up to MaxParamLen
\* characters out of a letter, a blank and the two quote characters, or one of
\* two longer texts
MaxParamLen == 4
ParamChars == {"a", " ", "'", "\""}
EnvValues ==
    { [set |-> FALSE, text |-> <<>>],
      [set |-> TRUE, text |-> <<"-", "c", " ", "'", "a", " ", "\"", "b", "'", " ">>],
      [set |-> TRUE, text |-> <<"a", "\t", "\"", "b", "\n", "'", "\"", "c", "\t", "d">>] }
    \cup {[set |-> TRUE, text |-> t] : t \in SeqsUpTo(ParamChars, MaxParamLen)}

OutputSettings == [crf : {23}, audioCodec : {"", "aac"}, audioBitrate : {"", "128k"}]

outputFrame == <<genVars, callVars, gpc, result, setupVars, updateCount, queueVars,
                 workerVars, sourceVars, collectorVars, endedAt, fadeCall,
                 queueCalls, queueLog, proc, child, closePc, pipeLog>>

\* startFFmpegOutput(filename) on a generator that has no encoder yet; pathSet
\* tells whether ffmpegPath_ is not empty, ok whether the spawn gave a stream
CallStartFFmpegOutput ==
    /\ unitCall = NoCall
    /\ \E filename \in FileNames, env \in EnvValues, s \in OutputSettings,
          pathSet \in BOOLEAN, ok \in BOOLEAN :
         IF ~pathSet
         THEN /\ unitCall' = [fn |-> "startFFmpegOutput", filename |-> filename, env |-> env,
                              settings |-> s, pathSet |-> FALSE, args |-> <<>>, ret |-> FALSE]
              /\ printed' = printed \cup {"FFmpeg path not set or FFmpeg not found"}
              /\ UNCHANGED <<ffmpegOutput_, spawned>>
         ELSE /\ unitCall' = [fn |-> "startFFmpegOutput", filename |-> filename, env |-> env,
                              settings |-> s, pathSet |-> TRUE,
                              args |-> encoderArgs(filename, env, s), ret |-> ok]
              /\ ffmpegOutput_' = IF ok THEN "open" ELSE "null"
              /\ spawned' = IF ok THEN spawned \cup {"encoder"} ELSE spawned
              /\ printed' = printed
                   \cup (IF env.set /\ env.text # <<>>
                         THEN {"Using custom FFmpeg parameters"} ELSE {})
                   \cup (IF ok THEN {} ELSE {"Failed to open FFmpeg output pipe"})
    /\ UNCHANGED outputFrame

InitOutput ==
    /\ Constructed({1, 30}, {0}, MaxFadeRatios, {0})
    /\ RunIdle

SpecOutput == InitOutput /\ [][CallStartFFmpegOutput]_vars

\* ------------------------------------------- C29: profile by extension
\* the name ends in a '.' followed by the letters of ext in either case
EndsInExt(filename, ext) ==
    /\ Len(filename) > Len(ext)
    /\ filename[Len(filename) - Len(ext)] = "."
    /\ \A j \in 1..Len(ext) :
          LET c == filename[Len(filename) - Len(ext) + j] IN
          \E i \in 1..26 : Lower[i] = ext[j] /\ c \in {Lower[i], Upper[i]}

\* the video codec named after -c:v in an argument list
CodecOf(args) ==
    (CHOOSE a \in {args[j + 1] : j \in {i \in 1..(Len(args) - 1) : args[i] = Lit("-c:v")}} :
        TRUE).lit

\* an argument list with the file name taken out
WithoutName(args) ==
    LET NotFile(a) == DOMAIN a # {"file"} IN SelectSeq(args, NotFile)

\* the text after the last '.', if any, of the two names is the same but for case
SameExt(f, g) ==
    \/ /\ \A e \in 1..Len(f) : f[e] = "." => e = Len(f)
       /\ \A e \in 1..Len(g) : g[e] = "." => e = Len(g)
    \/ \E n \in 1..Len(f) :
          /\ n < Len(g)
          /\ n < Len(f)
          /\ f[Len(f) - n] = "."
          /\ g[Len(g) - n] = "."
          /\ \A j \in 1..n :
                /\ f[Len(f) - n + j] # "."
                /\ \E i \in 1..26 :
                      {f[Len(f) - n + j], g[Len(g) - n + j]} \subseteq {Lower[i], Upper[i]}
                   \/ f[Len(f) - n + j] = g[Len(g) - n + j]

\* C29: with FFMPEG_PARAMETERS unset or empty, the list built for a name that
\* ends in .webm (in any case) uses libsvtav1, for one that ends in .mov
\* prores_ks, and for every other name libx264; and any name with the same
\* extension gives, under the same settings, the same list but for the name
C29_ProfileByExtension ==
    (/\ unitCall.fn = "startFFmpegOutput"
     /\ unitCall.pathSet
     /\ ~(unitCall.env.set /\ unitCall.env.text # <<>>)) =>
        LET f == unitCall.filename
            args == unitCall.args IN
        /\ CodecOf(args) = IF EndsInExt(f, <<"w", "e", "b", "m">>) THEN "libsvtav1"
                           ELSE IF EndsInExt(f, <<"m", "o", "v">>) THEN "prores_ks"
                           ELSE "libx264"
        /\ Cardinality({j \in 1..Len(args) : args[j] = File(f)}) = 1
        /\ \A g \in FileNames :
              SameExt(f, g) =>
                 WithoutName(encoderArgs(g, unitCall.env, unitCall.settings))
                    = WithoutName(args)

\* the list for b.WebM has been built with the AV1 codec
C29_Witness ==
    /\ unitCall.fn = "startFFmpegOutput"
    /\ unitCall.pathSet
    /\ ~unitCall.env.set
    /\ unitCall.filename = <<"b", ".", "W", "e", "b", "M">>
    /\ CodecOf(unitCall.args) = "libsvtav1"

\* ------------------------------------------------ C30: worker shutdown
\* stage k has left its loop
LeftLoop(k) == wpc[k] \in {"end", "close", "done"}

\* in every state: a queue is closed exactly when its producer has ended,
\* after its end packet; and a consumer that has left its loop has left room
\* in its input queue
WorkerShutdownInv ==
    \A k \in StageIds :
       (k < NumStages /\ wpc[k] # "none") =>
          /\ closed_[k] <=> wpc[k] = "done"
          /\ wpc[k] \in {"push", "end"} => ~closed_[k]
          /\ (k + 1 < NumStages /\ LeftLoop(k + 1)) =>
                /\ Len(stageQueues[k]) <= 1
                /\ Len(stageQueues[k]) < queueCapacity
                /\ wpc[k] \in {"push", "end"} => pushReady(k)

\* in every step: a push of a frame returns true (the worker goes on with its
\* loop), and a queue is closed by the step of its own producer that follows
\* the push of the end packet
WorkerShutdownStep ==
    \A k \in StageIds :
       /\ (wpc[k] = "push" /\ wpc'[k] # "push") => wpc'[k] = "acquire"
       /\ (wpc[k] = "end" /\ wpc'[k] # "end") =>
             /\ wpc'[k] = "close"
             /\ Len(stageQueues'[k]) = Len(stageQueues[k]) + 1
             /\ stageQueues'[k][Len(stageQueues'[k])].end
       /\ (closed_'[k] /\ ~closed_[k]) => wpc[k] = "close" /\ wpc'[k] = "done"

\* C30: no push of a worker returns false and none blocks forever, the end
\* packet's included; a queue is closed only by its own producer after that
\* producer's last push; a downstream stage that has left its loop has left
\* room for the upstream end packet; and every worker reaches the end of its
\* function
C30_WorkersReachEnd ==
    /\ []WorkerShutdownInv
    /\ [][WorkerShutdownStep]_vars
    /\ \A k \in StageIds :
          /\ (wpc[k] = "push") ~> (wpc[k] = "acquire")
          /\ (wpc[k] = "end") ~> (wpc[k] = "done")
          /\ (wpc[k] # "none") ~> (wpc[k] = "done")

\* stage 0 has left its loop and waits to push its end packet into a full
\* queue
C30_Witness ==
    /\ NumStages = 2
    /\ wpc[0] = "end"
    /\ Len(stageQueues[0]) = queueCapacity
    /\ ~pushReady(0)

\* stage 1 left its loop after totalFrames frames while stage 0 had yet to push
\* its end packet
C30_WitnessLeftByCount ==
    /\ NumStages = 2
    /\ LeftLoop(1)
    /\ stageFrameIndex[1] = totalFrames
    /\ wpc[0] = "end"
    /\ stageQueues[0] = <<>>

\* ------------------------------------------ C31: frame accounting under drops
\* the frames stage k has taken from its input so far, in order
Taken(k) ==
    IF wpc[k] = "process" THEN Append(rendered[k], logicalFrame[k]) ELSE rendered[k]

\* the frames stage k has pushed so far, in order
PushedFrames(k) ==
    IF wpc[k] = "push" /\ ~dropFrame[k]
    THEN SubSeq(Forwarded(k), 1, Len(Forwarded(k)) - 1)
    ELSE Forwarded(k)

\* C31: every stage after the first takes the frames the stage before it
\* pushed, in that order, and all of them once it has ended; its frame counter
\* counts the frames it took and no others; no frame is dropped by two stages
\* or handled by a stage after the one that dropped it; and a bounded run
\* that has returned has written totalFrames less the number of dropped frames
C31_FrameAccounting ==
    /\ \A k \in StageIds :
         (0 < k /\ k < NumStages) =>
            /\ IsPrefix(Taken(k), PushedFrames(k - 1))
            /\ (wpc[k] = "done" /\ wpc[k - 1] = "done") => rendered[k] = Forwarded(k - 1)
    /\ \A k \in StageIds :
         k < NumStages =>
            /\ stageFrameIndex[k] = Len(rendered[k])
                                     - (IF wpc[k] = "push" THEN 1 ELSE 0)
            /\ Len(rendered[k]) = renderCount[k]
            /\ dropped[k] \subseteq Range(rendered[k])
            /\ \A j \in StageIds :
                 j > k => /\ dropped[k] \cap Range(Taken(j)) = {}
                          /\ dropped[k] \cap dropped[j] = {}
    /\ (gpc = "returned" /\ result = "true") =>
          /\ [n \in 1..Len(written) |-> written[n].frameIndex] = Forwarded(NumStages - 1)
          /\ writtenFrames = Len(rendered[0]) - Cardinality(DroppedFrames)
          /\ ~autoDetectDuration =>
                /\ Len(rendered[0]) = totalFrames
                /\ writtenFrames = totalFrames - Cardinality(DroppedFrames)

\* a bounded two-stage run in which each stage dropped a frame has returned
C31_Witness ==
    /\ gpc = "returned"
    /\ result = "true"
    /\ ~autoDetectDuration
    /\ NumStages = 2
    /\ dropped[0] # {}
    /\ dropped[1] # {}
    /\ writtenFrames = totalFrames - 2

\* ------------------------------------------ C32: who applies the fade envelope
\* the multiplier stage k passes to renderFrame for logical frame i (line 782);
\* within one run it depends on the stage and the frame index only
StageFadeGiven(k, i) == computeStageFade(i, stageHasBackground(k))

\* the stages that rendered logical frame i with a multiplier below 1
SelfFadedAt(i) ==
    {k \in StageIds : /\ k < NumStages
                      /\ i \in Range(rendered[k])
                      /\ FracLess1(StageFadeGiven(k, i))}

\* C32: the multiplier a stage holds is the one computed for its frame, and no
\* written frame was both rendered with a stage multiplier below 1 and
\* darkened by the collector
C32_FadeAppliedOnce ==
    /\ \A k \in StageIds :
         (k < NumStages /\ wpc[k] = "push") =>
            fadeMultiplier[k] = StageFadeGiven(k, logicalFrame[k])
    /\ \A n \in 1..Len(written) :
         FracLess1(written[n].fade) => SelfFadedAt(written[n].frameIndex) = {}

\* a single-stage run without background: the collector alone darkened a frame
C32_WitnessCollectorOnly ==
    /\ NumStages = 1
    /\ ~hasBackground_
    /\ \E n \in 1..Len(written) :
         FracLess1(written[n].fade) /\ SelfFadedAt(written[n].frameIndex) = {}

\* a two-stage bounded run without background: stage 1 rendered a frame with
\* a multiplier below 1 and the collector darkened the same frame
C32_WitnessBoth ==
    /\ NumStages = 2
    /\ ~hasBackground_
    /\ ~autoDetectDuration
    /\ fadeDuration_ > 0
    /\ \E n \in 1..Len(written) :
         FracLess1(written[n].fade) /\ 1 \in SelfFadedAt(written[n].frameIndex)

\* ------------------------------------------ the stage fade multiplier on its own
\* The worker's call of computeStageFade (line 782) for any stage of the run
\* and any logical frame index below the frame count, made once generate has
\* resolved the duration.
StageFadeFps == {1, 3, 10}
StageFadeDurations == {0, 5, 10}
StageFadeRunSeconds == {0, 1, 2}

InitStageFade ==
    /\ Constructed(StageFadeFps, StageFadeDurations, MaxFadeRatios, {0})
    /\ RunIdle

GenerateCallStageFade ==
    \E effs \in LongEffectLists, d \in StageFadeRunSeconds :
        generateCall(effs, d, LongProbeSeconds)

CallComputeStageFade ==
    /\ gpc = "setup"
    /\ \E stage \in StageIds, frameIndex \in 0..MaxFadeTotal :
         /\ stage < NumStages
         /\ frameIndex < totalFrames
         /\ unitCall' = [fn |-> "computeStageFade",
                         frameIndex |-> frameIndex,
                         stageHasBackground |-> stageHasBackground(stage),
                         ret |-> computeStageFade(frameIndex, stageHasBackground(stage))]
    /\ UNCHANGED <<genVars, ffmpegOutput_, callVars, printed, spawned, gpc, result, setupVars,
                   updateCount, queueVars, workerVars, sourceVars, collectorVars, endedAt,
                   fadeCall, queueCalls, queueLog, proc, child, closePc, pipeLog>>

NextStageFade ==
    \/ SetBackground
    \/ GenerateCallStageFade
    \/ CallComputeStageFade

SpecStageFade == InitStageFade /\ [][NextStageFade]_vars

\* C33: a stage without background input gets 1; in an unbounded run a stage
\* with background gets frameIndex / fadeFrames below fadeFrames and 1 from
\* there on, 1 throughout when fadeFrames <= 0; in a bounded run it gets
\* getFadeMultiplier(frameIndex, totalFrames), which ramps up over the first
\* fadeFrames frames and down over the last fadeFrames frames
C33_StageFadeByRunKind ==
    unitCall.fn = "computeStageFade" =>
       LET i == unitCall.frameIndex
           m == unitCall.ret
           ff == (fadeDuration_ * fps_) \div 10 IN
       /\ ~unitCall.stageHasBackground => m = One
       /\ (unitCall.stageHasBackground /\ autoDetectDuration) =>
             /\ ff <= 0 => m = One
             /\ (ff > 0 /\ i < ff) => m.den > 0 /\ m.num * ff = i * m.den
             /\ (ff > 0 /\ i >= ff) => m = One
       /\ (unitCall.stageHasBackground /\ ~autoDetectDuration) =>
             /\ m = getFadeMultiplier(i, totalFrames)
             /\ m.den > 0
             /\ (fadeDuration_ > 0 /\ i < ff) =>
                   m.num * ff * 100 = i * maxFadeRatio_ * m.den
             /\ (fadeDuration_ > 0 /\ i >= ff /\ i >= totalFrames - ff) =>
                   m.num * ff * 100 = (totalFrames - i) * maxFadeRatio_ * m.den
             /\ (fadeDuration_ <= 0 \/ (i >= ff /\ i < totalFrames - ff)) =>
                   m.num * 100 = maxFadeRatio_ * m.den

\* an unbounded run past its fade-in: a stage with background gets 1
C33_Witness ==
    /\ unitCall.fn = "computeStageFade"
    /\ autoDetectDuration
    /\ unitCall.stageHasBackground
    /\ fadeFramesOf(fadeDuration_, fps_) = 3
    /\ unitCall.frameIndex = 5
    /\ unitCall.ret = One

\* a bounded run in its fade-out: frame 12 of 20 with fadeFrames 10 gives 4/5
C33_WitnessFadeOut ==
    /\ unitCall.fn = "computeStageFade"
    /\ ~autoDetectDuration
    /\ unitCall.stageHasBackground
    /\ totalFrames = 20
    /\ fadeFramesOf(fadeDuration_, fps_) = 10
    /\ unitCall.frameIndex = 12
    /\ 5 * unitCall.ret.num = 4 * unitCall.ret.den

\* stage 0 of a bounded run without background inside the fade-in window gets 1
C33_WitnessNoBackground ==
    /\ unitCall.fn = "computeStageFade"
    /\ ~autoDetectDuration
    /\ ~unitCall.stageHasBackground
    /\ unitCall.frameIndex < fadeFramesOf(fadeDuration_, fps_)
    /\ unitCall.ret = One

\* ------------------------------------------ C34: range of getFadeMultiplier
\* C34: for a frame number from 0 up to but excluding totalFrames the result
\* of getFadeMultiplier has a non-zero divisor and lies between 0 and
\* maxFadeRatio, whatever fadeFrames >= 0 and totalFrames are, and it is
\* maxFadeRatio when fadeDuration <= 0
C34_FadeMultiplierRange ==
    LET f == fadeCall.frameNumber
        t == fadeCall.totalFrames
        m == fadeCall.result IN
    (0 <= f /\ f < t) =>
       /\ m.den > 0
       /\ 0 <= m.num
       /\ m.num * 100 <= maxFadeRatio_ * m.den
       /\ fadeDuration_ <= 0 => m.num * 100 = maxFadeRatio_ * m.den
       /\ fadeFramesOf(fadeDuration_, fps_) = 0 => m.num * 100 = maxFadeRatio_ * m.den

\* the windows overlap: frame 3 of 5 with fadeFrames 75 is on the fade-in ramp
C34_Witness ==
    /\ fadeDuration_ = 25
    /\ fps_ = 30
    /\ maxFadeRatio_ = 50
    /\ fadeCall.totalFrames = 5
    /\ fadeCall.frameNumber = 3
    /\ fadeCall.result.num * 50 = fadeCall.result.den

\* fadeDuration > 0 with fadeFrames = 0: frame 0 gets maxFadeRatio undivided
C34_WitnessNoFadeFrames ==
    /\ fadeDuration_ = 5
    /\ fps_ = 1
    /\ fadeCall.totalFrames = 4
    /\ fadeCall.frameNumber = 0
    /\ fadeCall.result = Frac(maxFadeRatio_, 100)

\* a non-positive fadeDuration gives maxFadeRatio
C34_WitnessNoFade ==
    /\ fadeDuration_ = -5
    /\ maxFadeRatio_ = 50
    /\ fadeCall.frameNumber = 0
    /\ fadeCall.totalFrames = 2
    /\ fadeCall.result = Frac(50, 100)

\* ------------------------------------------ C35: what an unbounded run reads
\* the frames stage 0 has obtained so far
Stage0Frames ==
    Len(rendered[0]) + (IF wpc[0] = "process" THEN 1 ELSE 0)

\* C35: once generate has resolved an unbounded run the video stream is open,
\* and every frame stage 0 has obtained was read from it
C35_UnboundedReadsVideo ==
    (gpc # "idle" /\ autoDetectDuration) =>
       /\ videoInput_
       /\ hasBackground_
       /\ Stage0Frames <= srcDelivered

\* an unbounded run whose video stream is open: stage 0 read each of its frames
C35_Witness ==
    /\ autoDetectDuration
    /\ videoInput_
    /\ Stage0Frames = 2
    /\ srcDelivered = 2

\* after a failed setBackgroundVideo and generate without a duration: stage 0
\* renders blank frames of an unbounded run and reads nothing
C35_WitnessBlankUnbounded ==
    /\ autoDetectDuration
    /\ ~videoInput_
    /\ durationSec <= 0
    /\ Len(rendered[0]) > 0
    /\ srcDelivered = 0
    /\ ~sourceEnded

\* ------------------------------------------ the background video stream on its own
\* setBackgroundVideo called any number of times on one VideoGenerator, then
\* its destructor.  proc is videoInput_ with its stream and pid, child the
\* process it refers to, unitCall.earlier the child videoInput_ referred to
\* before the latest call.
VideoPidValues == {7, 8}

VideoSpawnInputs ==
    {in \in SpawnInputs : ~in.argsEmpty /\ in.mode = "r"}

\* VideoGenerator::setBackgroundVideo with startBackgroundVideo: line 397
\* assigns the spawn result to videoInput_ whatever videoInput_ held
SetBackgroundVideoCall ==
    /\ gpc = "idle"
    /\ closePc = 0
    /\ Count(pipeLog.events, "closeProcessPipe") = 0
    /\ \E in \in VideoSpawnInputs, pid \in VideoPidValues \ {child.pid} :
         LET spawn == spawnProcessPipe(in, pid)
             ok == spawn.handle.stream IN
         /\ proc' = spawn.handle
         /\ child' = spawn.child
         /\ pipeLog' = [in |-> in, events |-> <<>>]
         /\ unitCall' = [fn |-> "setBackgroundVideo", earlier |-> child, ret |-> ok]
         /\ videoInput_' = ok
         /\ backgroundVideo_' = (backgroundVideo_ \/ ok)
         /\ hasBackground_' = ok
         /\ isVideo_' = TRUE
         /\ printed' = printed \cup {IF ok THEN "Background video opened"
                                           ELSE "Failed to open background video"}
    /\ UNCHANGED <<fps_, fadeDuration_, maxFadeRatio_, warmupSeconds_, ffmpegOutput_,
                   callVars, spawned, gpc, result, setupVars, updateCount, queueVars,
                   workerVars, sourceVars, collectorVars, endedAt, fadeCall,
                   queueCalls, queueLog, closePc>>

\* VideoGenerator::~VideoGenerator, line 354: closeProcessPipe(videoInput_)
DestructorCall ==
    /\ Count(pipeLog.events, "closeProcessPipe") = 0
    /\ ClosePipeCall

NextVideo ==
    \/ SetBackgroundVideoCall
    \/ ChildExit
    \/ DestructorCall
    \/ ClosePipeStep

SpecVideo == InitPipe /\ [][NextVideo]_vars

\* the destructor has run to its end
Destroyed ==
    /\ closePc = 0
    /\ Count(pipeLog.events, "closeProcessPipe") > 0

\* C36: when spawnProcessPipe has returned after creating a child, the caller
\* holds the child's stream or the child has been reaped; the child an earlier
\* setBackgroundVideo created has been reaped when a later call replaces the
\* handle; and after the destructor no child is left unreaped
C36_ChildrenReaped ==
    /\ (child # NoChild /\ closePc = 0 /\ ~Destroyed) =>
          proc.stream \/ child.state = "reaped"
    /\ unitCall.fn = "setBackgroundVideo" =>
          unitCall.earlier = NoChild \/ unitCall.earlier.state = "reaped"
    /\ Destroyed => child = NoChild \/ child.state = "reaped"

\* one successful setBackgroundVideo, then the destructor: the child is reaped
C36_Witness ==
    /\ Destroyed
    /\ unitCall.fn = "setBackgroundVideo"
    /\ unitCall.earlier = NoChild
    /\ child.state = "reaped"
    /\ pipeLog.events = <<"closeProcessPipe", "fclose", "waitpid">>

\* fork succeeded and fdopen failed: the call returned a null handle and left
\* the child without reaping it
C36_WitnessFdopen ==
    /\ child # NoChild
    /\ child.state # "reaped"
    /\ ~proc.stream
    /\ proc.pid = -1
    /\ ~pipeLog.in.win32
    /\ ~pipeLog.in.fdopenOk
    /\ pipeLog.events = <<>>

\* a second setBackgroundVideo replaced the handle of a child that was never
\* waited for, and the destructor has reaped the second child only
C36_WitnessOverwritten ==
    /\ Destroyed
    /\ unitCall.fn = "setBackgroundVideo"
    /\ unitCall.earlier # NoChild
    /\ unitCall.earlier.state # "reaped"
    /\ child.state = "reaped"

\* ------------------------------------------ C37: FFMPEG_PARAMETERS override
QuoteChars == {"\"", "'"}

\* the quote character of the span that is open after the first n characters
\* of text, "" outside a quoted span
OpenQuote(text) ==
    LET q[n \in 0..Len(text)] ==
          IF n = 0 THEN ""
          ELSE IF q[n - 1] = "" THEN (IF text[n] \in QuoteChars THEN text[n] ELSE "")
          ELSE IF text[n] = q[n - 1] THEN "" ELSE q[n - 1]
    IN q

\* character n opens or closes a quoted span
Delimits(text, n) ==
    /\ text[n] \in QuoteChars
    /\ OpenQuote(text)[n - 1] \in {"", text[n]}

\* character n is white space outside every quoted span
Separates(text, n) ==
    /\ OpenQuote(text)[n - 1] = ""
    /\ text[n] \in {" ", "\t", "\n"}

\* the characters strictly between positions a and b that are neither
\* delimiting quotes nor separating white space
KeptBetween(text, a, b) ==
    LET at == SelectSeq([j \in 1..(b - a - 1) |-> a + j],
                        LAMBDA n : ~Delimits(text, n) /\ ~Separates(text, n))
    IN [j \in 1..Len(at) |-> text[at[j]]]

\* the tokens of text, stated without the loop: the non-empty runs between
\* consecutive separating characters, in order
TokensOf(text) ==
    LET cuts == {0, Len(text) + 1} \cup {n \in 1..Len(text) : Separates(text, n)}
        next(a) == CHOOSE b \in cuts : b > a /\ \A c \in cuts : c > a => b <= c
        starts == {a \in cuts \ {Len(text) + 1} : KeptBetween(text, a, next(a)) # <<>>}
        order == CHOOSE s \in [1..Cardinality(starts) -> starts] :
                    \A i, j \in 1..Cardinality(starts) : i < j => s[i] < s[j]
    IN [j \in 1..Cardinality(starts) |-> KeptBetween(text, order[j], next(order[j]))]

\* C37: with FFMPEG_PARAMETERS set and not empty the encoder's argument list
\* is the raw-input framing, then the tokens of the value, then the output
\* file name, with no codec argument chosen from the extension; the tokens
\* are the value split at unquoted white space, a quoted span keeping its
\* white space and losing its delimiting quotes, a quote of the other kind
\* inside a span kept as it is
C37_OverrideArgs ==
    (/\ unitCall.fn = "startFFmpegOutput"
     /\ unitCall.pathSet
     /\ unitCall.env.set
     /\ unitCall.env.text # <<>>) =>
       LET args == unitCall.args
           text == unitCall.env.text
           n == Len(args) - Len(rawInputArgs) - 1
           tokens == [j \in 1..n |-> args[Len(rawInputArgs) + j].tok] IN
       /\ n >= 0
       /\ SubSeq(args, 1, Len(rawInputArgs)) = rawInputArgs
       /\ args[Len(args)] = File(unitCall.filename)
       /\ \A j \in 1..n : args[Len(rawInputArgs) + j] = Tok(tokens[j])
       /\ tokens = TokensOf(text)
       /\ \A j \in 1..n : tokens[j] # <<>>
       /\ \A j \in 1..Len(args) :
            args[j] \notin {Lit("-c:v"), Lit("-crf"), Lit("-movflags"), Lit("-c:a"),
                            Lit("-hide_banner")}
       /\ "Using custom FFmpeg parameters" \in printed
       /\ text = <<"-", "c", " ", "'", "a", " ", "\"", "b", "'", " ">> =>
             tokens = << <<"-", "c">>, <<"a", " ", "\"", "b">> >>
       /\ text = <<"a", "\t", "\"", "b", "\n", "'", "\"", "c", "\t", "d">> =>
             tokens = << <<"a">>, <<"b", "\n", "'", "c">>, <<"d">> >>
       /\ text = <<"a", "'", " ", "'">> => tokens = << <<"a", " ">> >>
       /\ text = <<"'", "'", " ", "a">> => tokens = << <<"a">> >>

\* -c 'a "b' for a.webm: two tokens, the second with its blank and the double
\* quote, between the framing and the file name
C37_Witness ==
    /\ unitCall.fn = "startFFmpegOutput"
    /\ unitCall.pathSet
    /\ unitCall.env.set
    /\ unitCall.env.text = <<"-", "c", " ", "'", "a", " ", "\"", "b", "'", " ">>
    /\ unitCall.filename = <<"a", ".", "w", "e", "b", "m">>
    /\ unitCall.args = rawInputArgs
                        \o << Tok(<<"-", "c">>), Tok(<<"a", " ", "\"", "b">>),
                              File(<<"a", ".", "w", "e", "b", "m">>) >>

\* ------------------------------------------ duration resolution at the ends of int
\* generate for frame rates, durations and probed lengths whose frame count
\* comes near or beyond INT_MAX, followed by the effect loop.
EdgeFpsValues == {1, 2, 10, 30}
EdgeDurations == {0, 1, 1073741823, 1073741824, 2147483647}
EdgeProbeSeconds == {15, 2147483640, 2147483647}

InitEdge ==
    /\ Constructed(EdgeFpsValues, {0}, MaxFadeRatios, {0})
    /\ RunIdle

GenerateCallEdge ==
    \E effs \in LongEffectLists, d \in EdgeDurations :
        generateCall(effs, d, EdgeProbeSeconds)

NextEdge ==
    \/ SetBackground
    \/ GenerateCallEdge
    \/ SetupEffect

SpecEdge == InitEdge /\ [][NextEdge]_vars

\* generate was given an explicit duration, or its probe succeeded
DurationKnown ==
    /\ gpc # "idle"
    /\ NumStages >= 1
    /\ durationSec > 0 \/ (isVideo_ /\ probeSecs > 0)

\* C38: with an explicit duration d > 0, and with a successful probe, the
\* resolved totalFrames is not the INT_MAX sentinel and not negative, the run
\* is bounded, and every effect set up is given setTotalFrames(totalFrames)
C38_BoundedWhenDurationKnown ==
    DurationKnown =>
       /\ totalFrames # INT_MAX
       /\ totalFrames >= 0
       /\ ~autoDetectDuration
       /\ \A k \in StageIds :
            CallsAt(k, "initialize") # {} =>
               \E t \in CallsAt(k, "setTotalFrames") : setupCalls[t].arg = totalFrames

\* a bounded run resolved from an explicit duration just below the overflow:
\* fps 2 for 1073741823 s gives 2147483646 frames and setTotalFrames is called
C38_Witness ==
    /\ DurationKnown
    /\ fps_ = 2
    /\ durationSec = 1073741823
    /\ totalFrames = 2147483646
    /\ ~autoDetectDuration
    /\ CallsAt(0, "setTotalFrames") # {}

\* fps 1 for INT_MAX seconds: fps * d is the sentinel without any overflow,
\* the run is unbounded and the effect is initialized without setTotalFrames
C38_WitnessSentinel ==
    /\ DurationKnown
    /\ fps_ = 1
    /\ durationSec = INT_MAX
    /\ totalFrames = INT_MAX
    /\ autoDetectDuration
    /\ CallsAt(0, "initialize") # {}
    /\ CallsAt(0, "setTotalFrames") = {}

\* fps 2 for 2^30 seconds: fps * d overflows and wraps to the most negative int
C38_WitnessNegative ==
    /\ DurationKnown
    /\ fps_ = 2
    /\ durationSec = 1073741824
    /\ totalFrames = INT_MIN

\* a successful probe of 214748364.7 s at 10 fps rounds to the sentinel
C38_WitnessProbe ==
    /\ DurationKnown
    /\ durationSec <= 0
    /\ fps_ = 10
    /\ probeSecs = 2147483647
    /\ totalFrames = INT_MAX
    /\ autoDetectDuration

====
